---- MODULE Spec2Model ----
(***************************************************************************)
(* Verification model of the futures_encho trading bot.                    *)
(*                                                                         *)
(*   scheduler.py            ChainScheduler: startup readiness gate,       *)
(*                           APScheduler jobs, chain runs, job statistics  *)
(*   autotrade.py            TradingBot.run and its main loop              *)
(*   trading/*_executor.py   position open / close / trigger detection     *)
(*   utils/db.py             ChainDB: the expiring result cache and its    *)
(*                           connections                                   *)
(*   utils/kelly_utils.py    position sizing (exact rationals)             *)
(*   utils/retry_utils.py    the retry wrappers                            *)
(*   chains/decision_chain.py  the LLM decision, its validation, fallback  *)
(*                             and DecisionChain.run                       *)
(*   llm_factory.py          the cache of LLM instances                    *)
(*                                                                         *)
(* Each subsystem has its own specification over the shared variables      *)
(* (SpecStart, SpecJobs, SpecRuns, SpecStop, SpecClose, SpecExec, SpecSeq, *)
(* SpecTrig, SpecCache, SpecLoop, SpecSizing, SpecRetry, SpecDecision,     *)
(* SpecConn, SpecStats, SpecNotify, SpecRetryChain, SpecLock, SpecMonitor, *)
(* SpecRun, SpecFactory); Spec interleaves them all.                       *)
(***************************************************************************)
EXTENDS Integers, Sequences, FiniteSets, Bags, TLC

VARIABLES
    \* ---- ChainScheduler (scheduler.py) ----
    is_running,               \* ChainScheduler.is_running
    initialization_complete,  \* ChainScheduler.initialization_complete
    initialization_results,   \* chain -> "none" | "success" | "failure"
    job_stats,                \* chain -> [attempts, successes, failures]
    aps_state,                \* BackgroundScheduler: "stopped" | "running" | "shutting_down"
    aps_jobs,                 \* job store: set of job ids [chain, kind, sec]
    executions,               \* bag of running job instances [job, phase]
    epoch,                    \* int(time.time()), seconds since the scheduler was built
    submitted,                \* number of job runs the executor has accepted so far
    submit_result,            \* outcome of the executor's last submit_job
    \* ---- ChainScheduler.start() in progress ----
    start_pc,                 \* "idle" | "initial_chains" | "blocked" | "returned" | "raised"
    init_idx,                 \* index into chain_sequence
    init_attempt,             \* attempt of _initialize_single_chain (0-based)
    failed_chains,            \* _run_initial_chains.failed_chains
    init_slept,               \* chain -> the time.sleep waits of its _initialize_single_chain
    init_error,               \* chain -> "error" of its initialization_results entry
    gate_elapsed,             \* seconds since start_scheduler was called (saturating)
    sched_ret,                \* the last _run_chain_safe / trigger_chain call and its return
    interval_fired,           \* chains whose interval trigger has fired in the current second
    \* ---- TradingBot (autotrade.py) ----
    bot_pc,                   \* "created" | "start_scheduler" | "main_loop" | "cleanup" | "exited"
    bot_is_running,           \* TradingBot.is_running
    trades,                   \* trades table: row id -> [status, side, sl_price, tp_price]
    position_status,          \* the check_position_status() result of the last iteration
    iteration,                \* the last iteration: parity of its number, handler, record write
    \* ---- decision support (utils/kelly_utils.py) ----
    sizing_in,                \* arguments of the calculate_kelly_position call
    sizing_out,               \* what the call returned or raised
    \* ---- utils/retry_utils.py ----
    retry_in,                 \* the retry wrapper in use (a name of RetryPolicies)
    retry_st,                 \* its loop: pc, attempt, calls made, sleeps, last error
    \* ---- DecisionChain._make_decision (chains/decision_chain.py) ----
    oracle_in,                \* the LLM's response and the cached chain results
    oracle_out,               \* the decision _make_decision returned
    \* ---- LLMFactory (llm_factory.py) ----
    llm,                      \* _llm_cache, the order of last use, the last create_llm call
    \* ---- threads inside ChainDB.get_connection and under ChainScheduler.lock ----
    db_conns,                 \* caller -> state of the connection it holds
    stats_lock,               \* ChainScheduler.lock: the thread holding it, or Free
    stats_pc,                 \* thread -> its position in _run_chain_safe / _reset_job_stats
    job_times,                \* chain -> [last_run, last_duration] of its job_stats entry
    \* ---- executors (trading/test_executor.py, trading/real_executor.py) ----
    trading_mode,             \* Config.TRADING_MODE: "TEST" | "REAL"
    clock,                    \* time.time() in half seconds
    current_market_price,     \* TestExecutor._current_market_price (Unset until updated)
    current_position,         \* TestExecutor.current_position
    current_balance,          \* TestExecutor.current_balance
    order_id_counter,         \* TestExecutor.order_id_counter
    closing_in_progress,      \* TestExecutor._closing_in_progress
    last_trigger_check,       \* TestExecutor._last_trigger_check
    order_in_progress,        \* RealExecutor._order_in_progress
    last_order_time,          \* RealExecutor._last_order_time
    ticker_last,              \* exchange: last traded price
    exchange_position,        \* exchange: position of the account
    exchange_open_orders,     \* exchange: resting protective orders
    exchange_orders,          \* exchange: market orders filled, by purpose
    opened,                   \* open_position calls that created a position
    open_ret,                 \* the last open_position call: returned or raised, and why
    close_pc,                 \* caller -> position inside close_position
    close_local,              \* caller -> locals of its close_position frame
    close_ret,                \* caller -> what its close_position call has returned
    trig_ret,                 \* the last check_sl_tp_triggers call and its outcome
    \* ---- ChainDB (utils/db.py) ----
    tables,                   \* table -> set of rows [id, kind, timestamp, expiry_time]
    db_now,                   \* datetime.now(), in minutes
    db_rowid,                 \* rows inserted so far (AUTOINCREMENT)
    db_ret                    \* the last ChainDB call and what it returned

sched_vars == <<is_running, initialization_complete, initialization_results,
                job_stats, aps_state, aps_jobs, executions, epoch, submitted,
                submit_result, start_pc, init_idx, init_attempt, failed_chains>>
startup_frame == <<init_slept, init_error, gate_elapsed>>
gate_vars == <<startup_frame, sched_ret, interval_fired>>
sizing_vars == <<sizing_in, sizing_out>>
retry_vars == <<retry_in, retry_st>>
oracle_vars == <<oracle_in, oracle_out, llm>>
decision_vars == <<sizing_vars, retry_vars, oracle_vars>>
thread_vars == <<db_conns, stats_lock, stats_pc, job_times>>
tick_vars == <<trades, position_status, iteration>>
loop_vars == <<tick_vars, decision_vars, thread_vars>>
bot_vars == <<bot_pc, bot_is_running, loop_vars>>
trading_vars == <<trading_mode, clock, current_market_price, current_position,
                  current_balance, order_id_counter, closing_in_progress,
                  last_trigger_check, order_in_progress, last_order_time,
                  ticker_last, exchange_position, exchange_open_orders,
                  exchange_orders, opened, open_ret, close_pc, close_local,
                  close_ret, trig_ret>>
cache_vars == <<tables, db_now, db_rowid, db_ret>>
vars == <<sched_vars, gate_vars, bot_vars, trading_vars, cache_vars>>

----------------------------------------------------------------------------
(* Bounds of the model *)

\* job runs the executor accepts before the model stops submitting more
MaxRuns == 2

----------------------------------------------------------------------------
(* ChainScheduler: constants *)

chain_functions == {"news", "market_1h", "market_4h", "performance"}

chain_sequence == <<"news", "market_4h", "market_1h", "performance">>

required_chains == {"news", "market_1h", "market_4h", "performance"}

\* _initialize_single_chain(max_retries=3)
max_retries == 3

\* _schedule_retry(delay_minutes=5), in seconds
RetryDelaySeconds == 300

\* trigger_chain: run_date = now + 1 second
ManualDelaySeconds == 1

\* Config.SCHEDULE_INTERVALS, the seconds of each IntervalTrigger
SCHEDULE_INTERVALS ==
    [news |-> 7200, market_1h |-> 3600, market_4h |-> 14400, performance |-> 3600]

\* outcomes of one call of a chain function
\*   "success"  the chain returns {"success": True}
\*   "failed"   the chain returns {"success": False}
\*   "raised"   the chain raises an exception of another class
\*   "network"  the chain fails with a network / timeout error message
ChainOutcomes == {"success", "failed", "raised", "network"}

NoStats == [attempts |-> 0, successes |-> 0, failures |-> 0]

RECURSIVE SumOver(_, _)
SumOver(f, S) ==
    IF S = {} THEN 0
    ELSE LET x == CHOOSE y \in S : TRUE IN f[x] + SumOver(f, S \ {x})

----------------------------------------------------------------------------
(* ChainScheduler._run_chain_safe, the parts that touch shared state *)

\* "if chain_name not in self.job_stats: self.job_stats[chain_name] = {...}"
WithEntry(stats, chain) ==
    IF chain \in DOMAIN stats THEN stats
    ELSE [c \in DOMAIN stats \cup {chain} |-> IF c = chain THEN NoStats ELSE stats[c]]

\* with self.lock: (the entry is created if missing) attempts += 1
StatsBegin(stats, chain) ==
    [WithEntry(stats, chain) EXCEPT ![chain].attempts = @ + 1]

\* with self.lock: successes += 1    /   failures += 1
StatsEnd(stats, chain, outcome) ==
    IF outcome = "success"
    THEN [stats EXCEPT ![chain].successes = @ + 1]
    ELSE [stats EXCEPT ![chain].failures = @ + 1]

\* the "success" field of the dict _run_chain_safe returns
RunChainSafeSuccess(outcome) == outcome = "success"

\* no call of the scheduler's interface has returned yet
NoReturn == [op |-> "none"]

\* the exception of the chain leaves _run_chain_safe
RunChainSafeReturn_Reraises(chain, outcome) ==
    [op |-> "run_chain_safe", chain |-> chain,
     raised |-> outcome \in {"raised", "network", "unknown"},
     success |-> outcome = "success",
     error |-> IF outcome = "success" THEN "none" ELSE outcome]

\* what _run_chain_safe hands to its caller: the chain's result, or from
\* "except Exception" the dict {"success": False, "error": str(e)}
RunChainSafeReturn(chain, outcome) ==
    [op |-> "run_chain_safe", chain |-> chain,
     raised |-> FALSE,
     success |-> outcome = "success",
     error |-> IF outcome = "success" THEN "none" ELSE outcome]

\* except branch: "network" in str(e).lower() or "timeout" in str(e).lower()
IsTransient(outcome) == outcome = "network"

----------------------------------------------------------------------------
(* ChainScheduler.start / _run_initial_chains / _initialize_single_chain *)

\* a start() that does not look at is_running
AlreadyRunning_Never(running) == FALSE

\* start(): "if self.is_running: log a warning and return"
AlreadyRunning(running) == running

\* start(): the call enters _run_initial_chains
Start ==
    /\ UNCHANGED <<trading_vars, cache_vars, gate_vars, loop_vars>>
    /\ bot_pc = "created"
    /\ bot_pc' = "start_scheduler"
    /\ IF AlreadyRunning(is_running)
       THEN /\ start_pc' = "returned"
            /\ UNCHANGED <<init_idx, init_attempt, failed_chains>>
       ELSE /\ start_pc' = "initial_chains"
            /\ init_idx' = 1
            /\ init_attempt' = 0
            /\ failed_chains' = {}
    /\ UNCHANGED <<is_running, initialization_complete, initialization_results,
                   job_stats, aps_state, aps_jobs, executions, epoch, submitted, submit_result, bot_is_running>>

\* what a start() that found the scheduler running leaves behind: the
\* warning "Scheduler already running"
StartReturn == [op |-> "start", result |-> "already_running"]

\* start() called once more through start_scheduler() while the bot lives
\* and the first call has returned
StartAgain ==
    /\ UNCHANGED <<trading_vars, cache_vars, startup_frame, interval_fired, bot_vars>>
    /\ bot_pc \in {"start_scheduler", "main_loop", "cleanup"}
    /\ start_pc = "returned"
    /\ IF AlreadyRunning(is_running)
       THEN /\ sched_ret' = StartReturn
            /\ UNCHANGED <<start_pc, init_idx, init_attempt, failed_chains>>
       ELSE /\ start_pc' = "initial_chains"
            /\ init_idx' = 1
            /\ init_attempt' = 0
            /\ failed_chains' = {}
            /\ UNCHANGED sched_ret
    /\ UNCHANGED <<is_running, initialization_complete, initialization_results,
                   job_stats, aps_state, aps_jobs, executions, epoch, submitted,
                   submit_result>>

\* run() line 112: start_scheduler(wait_for_init=True, timeout=600)
GateTimeout == 600

\* "wait_time = min(2 ** attempt, 10)": the cap of the backoff
BackoffCap == 10

\* seconds the chain call of one attempt may take
ChainDurations == {0, 300}

\* the clock of the startup, which only needs to tell whether the timeout
\* has passed
Later(elapsed, seconds) ==
    IF elapsed + seconds > GateTimeout THEN GateTimeout + 1 ELSE elapsed + seconds

\* _initialize_single_chain: "if attempt > 0: wait_time = min(2 ** attempt, 10)"
WaitTime(attempt) == IF 2 ^ attempt < BackoffCap THEN 2 ^ attempt ELSE BackoffCap

\* the waits slept before attempt number `attempt` (0-based): none before the first
SleepBefore(attempt) == IF attempt > 0 THEN <<WaitTime(attempt)>> ELSE <<>>

\* "if attempt < max_retries - 1: continue / else: ... return False"
IsLastAttempt(attempt) == ~(attempt < max_retries - 1)

\* a chain that failed for good ends the sequence
AfterFinalFailure_Abort(idx) == Len(chain_sequence) + 1

\* _run_initial_chains: after "failed_chains.append(chain_name)" the for loop
\* goes on with the next chain
AfterFinalFailure(idx) == idx + 1

\* one pass of the retry loop of _initialize_single_chain for the current
\* chain: the sleep, then _run_chain_safe taking `duration` seconds
InitializeAttempt(outcome, duration) ==
    /\ UNCHANGED <<trading_vars, cache_vars, sched_ret, interval_fired>>
    /\ start_pc = "initial_chains"
    /\ init_idx <= Len(chain_sequence)
    /\ LET chain == chain_sequence[init_idx]
           ok == RunChainSafeSuccess(outcome)
           last == IsLastAttempt(init_attempt)
           slept == SleepBefore(init_attempt)
       IN /\ job_stats' = StatsEnd(StatsBegin(job_stats, chain), chain, outcome)
          /\ init_slept' = [init_slept EXCEPT ![chain] = @ \o slept]
          /\ gate_elapsed' = Later(gate_elapsed, SumOver(slept, DOMAIN slept) + duration)
          /\ IF ok
             THEN /\ initialization_results' =
                        [initialization_results EXCEPT ![chain] = "success"]
                  /\ init_idx' = init_idx + 1
                  /\ init_attempt' = 0
                  /\ UNCHANGED <<failed_chains, init_error>>
             ELSE IF last
             THEN /\ initialization_results' =
                        [initialization_results EXCEPT ![chain] = "failure"]
                  /\ init_error' = [init_error EXCEPT ![chain] = outcome]
                  /\ failed_chains' = failed_chains \cup {chain}
                  /\ init_idx' = AfterFinalFailure(init_idx)
                  /\ init_attempt' = 0
             ELSE /\ init_attempt' = init_attempt + 1
                  /\ UNCHANGED <<initialization_results, init_idx, failed_chains,
                                 init_error>>
    /\ UNCHANGED <<is_running, initialization_complete, aps_state, aps_jobs,
                   executions, epoch, submitted, submit_result, start_pc, bot_vars>>

\* an attempt whose chain call never returns: start() stays inside
\* _run_chain_safe, after the attempt was counted
InitializeHangs ==
    /\ UNCHANGED <<trading_vars, cache_vars, sched_ret, interval_fired>>
    /\ start_pc = "initial_chains"
    /\ init_idx <= Len(chain_sequence)
    /\ LET chain == chain_sequence[init_idx]
           slept == SleepBefore(init_attempt)
       IN /\ job_stats' = StatsBegin(job_stats, chain)
          /\ init_slept' = [init_slept EXCEPT ![chain] = @ \o slept]
          /\ gate_elapsed' = Later(gate_elapsed, SumOver(slept, DOMAIN slept))
    /\ start_pc' = "blocked"
    /\ UNCHANGED <<is_running, initialization_complete, initialization_results,
                   aps_state, aps_jobs, executions, epoch, submitted, submit_result,
                   init_idx, init_attempt, failed_chains, init_error, bot_vars>>

\* time passing while the caller of start_scheduler is inside a chain call
\* that does not return
BlockedTime ==
    /\ UNCHANGED <<trading_vars, cache_vars>>
    /\ start_pc = "blocked"
    /\ gate_elapsed <= GateTimeout
    /\ gate_elapsed' = GateTimeout + 1
    /\ UNCHANGED <<sched_vars, bot_vars, init_slept, init_error, sched_ret, interval_fired>>

\* best-effort policy: a failed required chain does not fail the start
InitialChainsRaise_BestEffort(failed) == FALSE

\* _run_initial_chains: "if failed_chains: raise"
InitialChainsRaise(failed) == failed # {}

PeriodicJob(chain) == [chain |-> chain, kind |-> "chain", sec |-> 0]

\* the end of _run_initial_chains and the rest of start():
\* _setup_chain_schedules, scheduler.start(), is_running = True
StartFinish ==
    /\ UNCHANGED <<trading_vars, cache_vars, gate_vars>>
    /\ start_pc = "initial_chains"
    /\ init_idx > Len(chain_sequence)
    /\ IF InitialChainsRaise(failed_chains)
       THEN /\ start_pc' = "raised"
            /\ UNCHANGED <<is_running, initialization_complete, aps_state, aps_jobs>>
       ELSE /\ initialization_complete' = TRUE
            /\ aps_jobs' = aps_jobs \cup {PeriodicJob(c) : c \in chain_functions}
            /\ aps_state' = "running"
            /\ is_running' = TRUE
            /\ start_pc' = "returned"
    /\ UNCHANGED <<initialization_results, job_stats, executions, epoch, submitted, submit_result,
                   init_idx, init_attempt, failed_chains, bot_vars>>

\* wait_for_initialization, once initialization_complete is set
AllRequiredSucceeded(results) ==
    \A c \in required_chains : results[c] = "success"

----------------------------------------------------------------------------
(* Claims about the order of start() *)

\* C31 (start ordering): periodic jobs are in the job store, the
\* APScheduler runs and is_running is set only once every required chain's
\* initial run has succeeded; a start() that raised has registered no job and
\* left the scheduler stopped and not marked running; on a running scheduler
\* no start() call is inside the initial runs, and a start() call that finds
\* the scheduler running changes nothing of the scheduler: no chain is run,
\* no job is added.
C31_StartOrdering ==
    /\ []((aps_jobs # {} \/ aps_state # "stopped" \/ is_running) =>
             /\ initialization_complete
             /\ \A c \in required_chains :
                    /\ initialization_results[c] = "success"
                    /\ job_stats[c].successes >= 1)
    /\ [](start_pc = "raised" =>
             aps_jobs = {} /\ aps_state = "stopped" /\ ~is_running)
    /\ [](is_running => start_pc = "returned")
    /\ [][(sched_ret' = StartReturn /\ sched_ret # StartReturn) =>
             /\ is_running
             /\ UNCHANGED <<sched_vars, startup_frame>>]_vars

\* a second start() has returned on the running scheduler: the four
\* periodic jobs are registered once and every chain has run once
C31_Witness ==
    /\ sched_ret = StartReturn
    /\ is_running
    /\ aps_jobs = {PeriodicJob(c) : c \in chain_functions}
    /\ \A c \in chain_functions : job_stats[c].attempts = 1

----------------------------------------------------------------------------
(* APScheduler job store and executor, as configured by the scheduler *)

\* add_job(..., max_instances=1) on every job
max_instances == 1

Phases == {"begin", "body"}

Instance(job, phase) == [job |-> job, phase |-> phase]

\* running instances of one job (APScheduler counts them per job id)
InstancesOf(job) ==
    CopiesIn(Instance(job, "begin"), executions) + CopiesIn(Instance(job, "body"), executions)

\* no limit on the running instances of a job
MaySubmit_Unlimited(job) == TRUE

\* BaseExecutor.submit_job: MaxInstancesReachedError when the job already has
\* max_instances running instances; the run is then dropped
MaySubmit(job) == InstancesOf(job) < max_instances

DateJobs == {j \in aps_jobs : j.kind # "chain"}

\* delay between add_job and run_date of a date-triggered job
DelayOf(kind) == IF kind = "retry" THEN RetryDelaySeconds ELSE ManualDelaySeconds

\* bound of the model: no further run is submitted after MaxRuns
StartsAllowed == submitted < MaxRuns

\* IntervalTrigger(seconds=...) of a job added when the scheduler started
\* (epoch 0): due every whole interval after that
IntervalDue(chain) == epoch > 0 /\ epoch % SCHEDULE_INTERVALS[chain] = 0

\* the interval trigger of <chain>_chain fires
FirePeriodic(chain) ==
    /\ UNCHANGED <<trading_vars, cache_vars, startup_frame, sched_ret>>
    /\ aps_state = "running"
    /\ PeriodicJob(chain) \in aps_jobs
    /\ IntervalDue(chain)
    /\ chain \notin interval_fired
    /\ interval_fired' = interval_fired \cup {chain}
    /\ StartsAllowed
    /\ IF MaySubmit(PeriodicJob(chain))
       THEN /\ executions' = executions (+) SetToBag({Instance(PeriodicJob(chain), "begin")})
            /\ submitted' = submitted + 1
            /\ submit_result' = "submitted"
       ELSE /\ submit_result' = "max_instances"
            /\ UNCHANGED <<executions, submitted>>
    /\ UNCHANGED <<is_running, initialization_complete, initialization_results,
                   job_stats, aps_state, aps_jobs, epoch,
                   start_pc, init_idx, init_attempt, failed_chains, bot_vars>>

\* a date-triggered job (manual trigger or retry) reaches its run_date:
\* it leaves the job store and is submitted
FireDate(job) ==
    /\ UNCHANGED <<trading_vars, cache_vars, gate_vars>>
    /\ aps_state = "running"
    /\ job \in DateJobs
    /\ epoch >= job.sec + DelayOf(job.kind)
    /\ StartsAllowed
    /\ aps_jobs' = aps_jobs \ {job}
    /\ IF MaySubmit(job)
       THEN /\ executions' = executions (+) SetToBag({Instance(job, "begin")})
            /\ submitted' = submitted + 1
            /\ submit_result' = "submitted"
       ELSE /\ submit_result' = "max_instances"
            /\ UNCHANGED <<executions, submitted>>
    /\ UNCHANGED <<is_running, initialization_complete, initialization_results,
                   job_stats, aps_state, epoch,
                   start_pc, init_idx, init_attempt, failed_chains, bot_vars>>

\* scheduler.add_job(id=...): ConflictingIdError when a running scheduler
\* already stores a job of that id; a stopped scheduler stores it as pending
AddJob(jobs, job) == jobs \cup {job}

AddJobConflicts(jobs, job) == aps_state = "running" /\ job \in jobs

\* _run_chain_safe, first locked section: attempts += 1, last_run
RunChainBegin(e) ==
    /\ UNCHANGED <<trading_vars, cache_vars, gate_vars>>
    /\ e.phase = "begin"
    /\ BagIn(e, executions)
    /\ job_stats' = StatsBegin(job_stats, e.job.chain)
    /\ executions' = (executions (-) SetToBag({e})) (+) SetToBag({Instance(e.job, "body")})
    /\ UNCHANGED <<is_running, initialization_complete, initialization_results,
                   aps_state, aps_jobs, epoch, submitted, submit_result,
                   start_pc, init_idx, init_attempt, failed_chains, bot_vars>>

\* _schedule_retry(chain_name): one date job <chain>_retry_<int(time.time())>;
\* an exception of add_job is logged and swallowed
ScheduleRetry(jobs, chain) ==
    LET job == [chain |-> chain, kind |-> "retry", sec |-> epoch]
    IN IF AddJobConflicts(jobs, job) THEN jobs ELSE AddJob(jobs, job)

\* _run_chain_safe, from the return of the chain function to its own return
RunChainEnd(e, outcome) ==
    /\ UNCHANGED <<trading_vars, cache_vars, startup_frame, interval_fired>>
    /\ e.phase = "body"
    /\ BagIn(e, executions)
    /\ job_stats' = StatsEnd(job_stats, e.job.chain, outcome)
    /\ executions' = executions (-) SetToBag({e})
    /\ IF ~RunChainSafeSuccess(outcome) /\ initialization_complete /\ IsTransient(outcome)
       THEN aps_jobs' = ScheduleRetry(aps_jobs, e.job.chain)
       ELSE UNCHANGED aps_jobs
    /\ sched_ret' = RunChainSafeReturn(e.job.chain, outcome)
    /\ UNCHANGED <<is_running, initialization_complete, initialization_results,
                   aps_state, epoch, submitted, submit_result,
                   start_pc, init_idx, init_attempt, failed_chains, bot_vars>>

\* names that are no key of chain_functions
UnknownNames == {"unknown"}

\* _run_chain_safe(chain_name) called with a name that is no chain
\* (as _run_chains_parallel does with whatever names it is given): the
\* entry is created and counted, chain_functions.get returns None, the
\* ValueError is caught
RunChainSafeDirect(name) ==
    /\ UNCHANGED <<trading_vars, cache_vars, startup_frame, interval_fired>>
    /\ name \in UnknownNames
    /\ StartsAllowed
    /\ submitted' = submitted + 1
    /\ job_stats' = StatsEnd(StatsBegin(job_stats, name), name, "unknown")
    /\ IF initialization_complete /\ IsTransient("unknown")
       THEN aps_jobs' = ScheduleRetry(aps_jobs, name)
       ELSE UNCHANGED aps_jobs
    /\ sched_ret' = RunChainSafeReturn(name, "unknown")
    /\ UNCHANGED <<is_running, initialization_complete, initialization_results,
                   aps_state, executions, epoch, submit_result,
                   start_pc, init_idx, init_attempt, failed_chains, bot_vars>>

\* what trigger_chain returns
TriggerChainReturn(name, ok) == [op |-> "trigger_chain", chain |-> name, result |-> ok]

\* chain names passed to trigger_chain: the one on_trade_completed passes,
\* another known chain, and a name that is no chain
TriggerNames == {"performance", "unknown"}

\* trigger_chain(chain_name, force_refresh=True); called by
\* on_trade_completed / trigger_chain_manual while the scheduler runs
\* (bound of the model: a job is only added while a run is left for it)
TriggerChain(name) ==
    /\ UNCHANGED <<trading_vars, cache_vars, startup_frame, interval_fired>>
    /\ aps_state = "running"
    /\ LET job == [chain |-> name, kind |-> "manual", sec |-> epoch]
       IN IF name \notin chain_functions \/ AddJobConflicts(aps_jobs, job)
          THEN /\ sched_ret' = TriggerChainReturn(name, FALSE)
               /\ UNCHANGED aps_jobs
          ELSE /\ Cardinality(DateJobs) + submitted < MaxRuns
               /\ aps_jobs' = AddJob(aps_jobs, job)
               /\ sched_ret' = TriggerChainReturn(name, TRUE)
    /\ UNCHANGED <<is_running, initialization_complete, initialization_results,
                   job_stats, aps_state, executions, epoch, submitted, submit_result,
                   start_pc, init_idx, init_attempt, failed_chains, bot_vars>>

\* _reset_job_stats (cron job stats_reset)
ResetJobStats ==
    /\ UNCHANGED <<trading_vars, cache_vars, gate_vars>>
    /\ aps_state = "running"
    /\ job_stats' = [c \in DOMAIN job_stats |-> NoStats]
    /\ UNCHANGED <<is_running, initialization_complete, initialization_results,
                   aps_state, aps_jobs, executions, epoch, submitted, submit_result,
                   start_pc, init_idx, init_attempt, failed_chains, bot_vars>>

\* time passes, up to the next second at which a job of the store is due:
\* the run_date of a date job or the end of an interval (the clock is only
\* observed through job ids and due times), the scheduler thread having
\* submitted every date job that was due; the model follows the clock for
\* two rounds of the hourly jobs and the delays of the date jobs after them
Horizon == 2 * SCHEDULE_INTERVALS["performance"] + ManualDelaySeconds + RetryDelaySeconds

RunDates == {j.sec + DelayOf(j.kind) : j \in DateJobs}

IntervalEnds ==
    {((epoch \div SCHEDULE_INTERVALS[c]) + 1) * SCHEDULE_INTERVALS[c] : c \in chain_functions}

TickTimes == RunDates \cup IntervalEnds

Tick(t) ==
    /\ UNCHANGED <<trading_vars, cache_vars, startup_frame, sched_ret>>
    /\ t \in TickTimes
    /\ t > epoch
    /\ t <= Horizon
    /\ \A u \in TickTimes : u > epoch => t <= u
    /\ \A u \in RunDates : u > epoch
    /\ epoch' = t
    /\ interval_fired' = {}
    /\ UNCHANGED <<is_running, initialization_complete, initialization_results,
                   job_stats, aps_state, aps_jobs, executions, submitted, submit_result,
                   start_pc, init_idx, init_attempt, failed_chains, bot_vars>>

\* stop(): scheduler.shutdown(wait=True) begins; nothing is submitted any more
StopBegin ==
    /\ UNCHANGED <<trading_vars, cache_vars, gate_vars, loop_vars>>
    /\ bot_pc = "cleanup"
    /\ IF is_running
       THEN /\ aps_state' = "shutting_down"
            /\ bot_pc' = "stopping"
       ELSE /\ bot_pc' = "exited"
            /\ UNCHANGED aps_state
    /\ UNCHANGED <<is_running, initialization_complete, initialization_results,
                   job_stats, aps_jobs, executions, epoch, submitted, submit_result,
                   start_pc, init_idx, init_attempt, failed_chains, bot_is_running>>

\* shutdown(wait=False): the call returns whatever is still running
ShutdownReturns_NoWait(running) == TRUE

\* scheduler.shutdown(wait=True): the executor's pool is joined, so the call
\* returns only when no submitted run is left
ShutdownReturns(running) == running = EmptyBag

\* shutdown(wait=True) returns once every submitted run has finished
StopEnd ==
    /\ UNCHANGED <<trading_vars, cache_vars, gate_vars, loop_vars>>
    /\ bot_pc = "stopping"
    /\ ShutdownReturns(executions)
    /\ aps_state' = "stopped"
    /\ is_running' = FALSE
    /\ bot_pc' = "exited"
    /\ UNCHANGED <<initialization_complete, initialization_results,
                   job_stats, aps_jobs, executions, epoch, submitted, submit_result,
                   start_pc, init_idx, init_attempt, failed_chains, bot_is_running>>

----------------------------------------------------------------------------
(* TradingBot.run *)

\* wait_for_initialization(timeout), `waited` seconds after it was called:
\* what it returns, or "waiting" when it sleeps another second
WaitForInitialization(complete, results, waited) ==
    IF ~complete
    THEN IF waited > GateTimeout THEN "false" ELSE "waiting"
    ELSE IF AllRequiredSucceeded(results) THEN "true" ELSE "false"

\* get_initialization_status
GetInitializationStatus ==
    [complete |-> initialization_complete,
     success_count |-> Cardinality({c \in chain_functions :
                                       initialization_results[c] = "success"}),
     total_count |-> Cardinality({c \in chain_functions :
                                     initialization_results[c] # "none"})]

\* start_scheduler(wait_for_init=True) has returned or raised
RunAfterStart ==
    /\ UNCHANGED <<trading_vars, cache_vars, gate_vars, loop_vars>>
    /\ bot_pc = "start_scheduler"
    /\ \/ /\ start_pc = "raised"
          /\ bot_pc' = "cleanup"
          /\ UNCHANGED bot_is_running
       \/ /\ start_pc = "returned"
          /\ WaitForInitialization(initialization_complete, initialization_results, 0)
                 # "waiting"
          /\ IF WaitForInitialization(initialization_complete, initialization_results, 0)
                 = "true"
             THEN /\ bot_pc' = "main_loop"
                  /\ bot_is_running' = TRUE
             ELSE /\ bot_pc' = "cleanup"
                  /\ UNCHANGED bot_is_running
    /\ UNCHANGED sched_vars

\* _signal_handler
SignalHandler ==
    /\ UNCHANGED <<trading_vars, cache_vars, gate_vars, loop_vars>>
    /\ bot_pc \in {"start_scheduler", "main_loop"}
    /\ bot_is_running
    /\ bot_is_running' = FALSE
    /\ UNCHANGED <<bot_pc, sched_vars>>

\* while self.is_running: the loop ends
MainLoopExit ==
    /\ UNCHANGED <<trading_vars, cache_vars, gate_vars, loop_vars>>
    /\ bot_pc = "main_loop"
    /\ ~bot_is_running
    /\ bot_pc' = "cleanup"
    /\ UNCHANGED <<bot_is_running, sched_vars>>

----------------------------------------------------------------------------
(* Claims about the scheduler *)

\* C1 (readiness gate): the bot is in its main loop only if every required
\* chain has succeeded at least once during startup; and once a required
\* chain has finally failed, start() ends by raising and the bot never is
\* in the main loop.
C1_ReadinessGate ==
    /\ bot_pc = "main_loop" =>
          \A c \in required_chains : job_stats[c].successes >= 1
    /\ (\E c \in required_chains : initialization_results[c] = "failure") =>
          /\ bot_pc # "main_loop"
          /\ start_pc \in {"initial_chains", "blocked", "raised"}
          /\ ~is_running

\* C1 witness: the main loop is entered after a chain needed a retry
C1_Witness ==
    /\ bot_pc = "main_loop"
    /\ \E c \in required_chains : job_stats[c].failures >= 1

\* running instances of any job of one chain
RunningOfChain(chain) ==
    LET S == {e \in BagToSet(executions) : e.job.chain = chain}
    IN SumOver([e \in S |-> CopiesIn(e, executions)], S)

\* C2 (single flight of a periodic job): a periodic chain job never has more
\* than one running instance; a timer firing while one runs is dropped.
C2_PeriodicSingleFlight ==
    \A c \in chain_functions : InstancesOf(PeriodicJob(c)) <= 1

\* C2 witness: a timer fired while its job was running and the run was dropped
C2_Witness ==
    /\ submit_result = "max_instances"
    /\ \E c \in chain_functions : InstancesOf(PeriodicJob(c)) = 1

\* C3 (per-chain running guard): at most one execution of a given chain runs
\* at any time, whatever job (periodic, manual trigger, retry) started it.
C3_PerChainSingleFlight ==
    \A c \in chain_functions : RunningOfChain(c) <= 1

\* the waits the startup retries are stated to sleep: 2 s, 4 s, 10 s
StatedWaits == <<2, 4, 10>>

\* C11 (startup retries): a required chain is run once and then retried up
\* to max_retries times, sleeping 2 s, 4 s, 10 s before the retries; the
\* retries stop at the first success, and the chain is declared failed only
\* after the first run and all max_retries retries have failed.
C11_StartupRetriesWithBackoff ==
    \A c \in required_chains :
        /\ init_slept[c] = SubSeq(StatedWaits, 1, Len(init_slept[c]))
        /\ initialization_results[c] = "success" =>
              /\ job_stats[c].successes = 1
              /\ job_stats[c].attempts = job_stats[c].failures + 1
              /\ job_stats[c].failures <= max_retries
        /\ initialization_results[c] = "failure" =>
              /\ job_stats[c].successes = 0
              /\ job_stats[c].attempts = 1 + max_retries
              /\ init_slept[c] = StatedWaits

\* C12 (a required chain fails for good): the chains after it have been
\* attempted all the same, start() has raised and not started the scheduler,
\* and the initialization status counts the succeeded chains out of the four
\* required and holds the error of every failed chain.
C12_FailureReportsCounts ==
    /\ (failed_chains # {} /\ start_pc \notin {"initial_chains", "blocked"}) =>
          /\ start_pc = "raised"
          /\ ~is_running
          /\ ~initialization_complete
    /\ start_pc = "raised" =>
          /\ GetInitializationStatus.total_count = Cardinality(required_chains)
          /\ GetInitializationStatus.success_count =
                Cardinality(required_chains) - Cardinality(failed_chains)
          /\ \A c \in required_chains :
                IF c \in failed_chains
                THEN /\ initialization_results[c] = "failure"
                     /\ init_error[c] \in ChainOutcomes \ {"success"}
                ELSE /\ initialization_results[c] = "success"
                     /\ init_error[c] = "none"

\* C12 witness: the third chain of four failed for good, start() raised, and
\* the status says 3 of 4
C12_Witness ==
    /\ start_pc = "raised"
    /\ failed_chains = {chain_sequence[3]}
    /\ GetInitializationStatus.success_count = 3
    /\ GetInitializationStatus.total_count = 4
    /\ job_stats[chain_sequence[4]].successes = 1

\* C13 (the gate is bounded by its timeout): the bot reaches its main loop
\* only if the required chains had all succeeded before the timeout elapsed,
\* counted from the call of start_scheduler, and the call is never still
\* inside a chain run once the timeout has elapsed.
C13_GateBoundedByTimeout ==
    /\ bot_pc = "main_loop" => gate_elapsed <= GateTimeout
    /\ ~(start_pc = "blocked" /\ gate_elapsed > GateTimeout)

\* the statistics of a name, 0 throughout while it has no entry
StatsOf(stats, name) == IF name \in DOMAIN stats THEN stats[name] ELSE NoStats

\* what a step adds to the statistics of a name
StatsAdded(name) ==
    [attempts |-> StatsOf(job_stats', name).attempts - StatsOf(job_stats, name).attempts,
     successes |-> StatsOf(job_stats', name).successes - StatsOf(job_stats, name).successes,
     failures |-> StatsOf(job_stats', name).failures - StatsOf(job_stats, name).failures]

RunNames == chain_functions \cup UnknownNames

\* C14 (a run never raises and is counted once): the first locked section
\* of a run adds 1 to the attempts of its chain and nothing else; its end
\* adds 1 to exactly one of successes / failures (successes exactly when the
\* chain succeeded) and returns, without raising, a result whose success is
\* false and whose error is set for every failure - the chain returned
\* success=false, the chain raised, or the name is no chain.
C14_RunNeverRaises ==
    [][/\ \A e \in DOMAIN executions :
             RunChainBegin(e) =>
                \A n \in RunNames :
                    StatsAdded(n) = IF n = e.job.chain
                                    THEN [attempts |-> 1, successes |-> 0, failures |-> 0]
                                    ELSE [attempts |-> 0, successes |-> 0, failures |-> 0]
       /\ \A e \in DOMAIN executions, o \in ChainOutcomes :
             RunChainEnd(e, o) =>
                /\ \A n \in RunNames :
                      StatsAdded(n) =
                         IF n # e.job.chain
                         THEN [attempts |-> 0, successes |-> 0, failures |-> 0]
                         ELSE IF o = "success"
                         THEN [attempts |-> 0, successes |-> 1, failures |-> 0]
                         ELSE [attempts |-> 0, successes |-> 0, failures |-> 1]
                /\ sched_ret'.op = "run_chain_safe"
                /\ ~sched_ret'.raised
                /\ sched_ret'.success = (o = "success")
                /\ o # "success" => sched_ret'.error # "none"
       /\ \A name \in UnknownNames :
             RunChainSafeDirect(name) =>
                /\ \A n \in RunNames :
                      StatsAdded(n) = IF n = name
                                      THEN [attempts |-> 1, successes |-> 0, failures |-> 1]
                                      ELSE [attempts |-> 0, successes |-> 0, failures |-> 0]
                /\ sched_ret'.op = "run_chain_safe"
                /\ ~sched_ret'.raised
                /\ ~sched_ret'.success
                /\ sched_ret'.error # "none"
      ]_vars

\* C14 witness: a run with a name that is no chain has returned its failure,
\* after a run of a chain raised
C14_Witness ==
    /\ sched_ret.op = "run_chain_safe"
    /\ sched_ret.chain \in UnknownNames
    /\ ~sched_ret.success
    /\ StatsOf(job_stats, sched_ret.chain).failures = 1
    /\ \E c \in chain_functions : job_stats[c].failures >= 1

\* C15 (one retry per transient failure): the end of a run adds exactly one
\* job to the job store, a dated retry of the run's chain, when
\* initialization is complete and the run failed with a network/timeout
\* error; the end of any other run, and every run of the startup, leaves the
\* job store as it was.
C15_OneRetryPerTransientFailure ==
    [][/\ \A e \in DOMAIN executions, o \in ChainOutcomes :
             RunChainEnd(e, o) =>
                IF initialization_complete /\ o = "network"
                THEN /\ aps_jobs \subseteq aps_jobs'
                     /\ Cardinality(aps_jobs' \ aps_jobs) = 1
                     /\ \A j \in aps_jobs' \ aps_jobs :
                           /\ j.chain = e.job.chain
                           /\ j.kind = "retry"
                           /\ DelayOf(j.kind) > 0
                ELSE aps_jobs' = aps_jobs
       /\ \A o \in ChainOutcomes, d \in ChainDurations :
             InitializeAttempt(o, d) => aps_jobs' = aps_jobs
      ]_vars

\* C16 (manual trigger): trigger_chain of a known chain returns true and
\* adds exactly one job to the job store, a run of that chain due at once
\* (after the one second of its run date); trigger_chain of an unknown name
\* returns false and adds nothing; either way every job already stored, the
\* periodic job of the chain among them, stays as it was.
C16_TriggerSchedulesOneRun ==
    [][\A name \in TriggerNames :
          TriggerChain(name) =>
             /\ aps_jobs \subseteq aps_jobs'
             /\ IF name \in chain_functions
                THEN /\ sched_ret'.result = TRUE
                     /\ Cardinality(aps_jobs' \ aps_jobs) = 1
                     /\ \A j \in aps_jobs' \ aps_jobs :
                           /\ j.chain = name
                           /\ j.kind = "manual"
                           /\ DelayOf(j.kind) = ManualDelaySeconds
                ELSE /\ sched_ret'.result = FALSE
                     /\ aps_jobs' = aps_jobs
      ]_vars

\* C17 (graceful stop): when stop() returns with the scheduler marked not
\* running, no chain execution is running; none starts after that; and
\* until then a running execution is only ever removed by its own return.
C17_StopWaitsForRuns ==
    [][/\ (bot_pc' = "exited" /\ ~is_running') => executions' = EmptyBag
       /\ (bot_pc = "exited" /\ ~is_running) => executions' = executions
       /\ (\E e \in DOMAIN executions : CopiesIn(e, executions') < CopiesIn(e, executions)) =>
             \E e \in DOMAIN executions, o \in ChainOutcomes \cup {"begin"} :
                 IF o = "begin" THEN RunChainBegin(e) ELSE RunChainEnd(e, o)
      ]_vars

\* C17 witness: stop() is waiting while a chain execution is in its body
C17_Witness ==
    /\ bot_pc = "stopping"
    /\ aps_state = "shutting_down"
    /\ \E e \in DOMAIN executions : e.phase = "body"

----------------------------------------------------------------------------
(* Executors: units and constants                                          *)
(*   prices            whole dollars                                       *)
(*   sl / tp prices    cents (round(.., 2) keeps two decimals)             *)
(*   amounts           thousandths of a BTC                                *)
(*   balance, P/L      dollars x thousandths of a BTC                      *)

\* positions the model lets open_position create
MaxOpens == 1

\* closing orders the exchange has filled after which no new close_position
\* call is started
MaxCloses == 1

\* half seconds the model lets the clock advance
MaxElapsed == 2

\* Config.INITIAL_TEST_BALANCE, dollars
INITIAL_TEST_BALANCE == 10000

\* Config.MIN_INVESTMENT_AMOUNT, dollars
MIN_INVESTMENT_AMOUNT == 100

\* check_sl_tp_triggers: current_time - _last_trigger_check < 0.5, in half seconds
TriggerCheckWindow == 1

\* create_market_order: current_time - _last_order_time < 2.0, in half seconds
OrderWindow == 4

\* time.time() when the executor is built: both windows have long passed
ClockStart == OrderWindow

Unset == 0
NoPosition == [side |-> "none", amount |-> 0, entry_price |-> 0]

Prices == {89, 100, 111}
Sides == {"long", "short"}

\* (stop_loss_percentage, take_profit_percentage) of a decision, in percent
DecisionPcts == {<<5, 11>>, <<11, 5>>}

Callers == {1, 2}

ToBalance(dollars) == dollars * 1000

\* math.ceil((investment_amount / current_price) * 1000) / 1000
CalculateOrderAmount(investment_amount, current_price) ==
    (investment_amount * 1000 + current_price - 1) \div current_price

\* _calculate_sl_tp_prices, in cents
CalculateSlTpPrices(action, entry_price, sl_pct, tp_pct) ==
    IF action = "long"
    THEN [sl_price |-> entry_price * (100 - sl_pct),
          tp_price |-> entry_price * (100 + tp_pct)]
    ELSE [sl_price |-> entry_price * (100 + sl_pct),
          tp_price |-> entry_price * (100 - tp_pct)]

\* close_position: profit_loss of closing [side, amount, entry_price] at exit_price
ProfitLoss(side, amount, entry_price, exit_price) ==
    IF side = "long"
    THEN (exit_price - entry_price) * amount
    ELSE (entry_price - exit_price) * amount

OppositeSide(side) == IF side = "long" THEN "short" ELSE "long"

\* what close_position returns
CloseResult(success, message, profit_loss) ==
    [success |-> success, message |-> message, profit_loss |-> profit_loss]

NoResult == CloseResult(FALSE, "none", 0)

NoLocal == [side |-> "none", amount |-> 0, entry_price |-> 0,
            exit_price |-> 0, balance |-> 0, result |-> NoResult]

\* open_position has not been called
NoOpen == [called |-> FALSE, raised |-> FALSE]

\* open_position returned its result dict / raised Exception(error)
OpenReturn(error) == [called |-> TRUE, raised |-> error # "none"]

NoCheck == [called |-> FALSE, at |-> 0, rapid |-> FALSE, side |-> "none",
            price |-> 0, sl_price |-> 0, tp_price |-> 0, last_before |-> 0,
            result |-> "none"]

trading_frame == <<trading_mode, opened, open_ret>>
test_vars == <<current_market_price, current_position, current_balance,
               order_id_counter, closing_in_progress, last_trigger_check>>
real_vars == <<order_in_progress, last_order_time, ticker_last,
               exchange_position, exchange_open_orders, exchange_orders>>
call_vars == <<close_pc, close_local, close_ret>>

----------------------------------------------------------------------------
(* Executors: opening a position, prices, the clock *)

AllIdle == \A t \in Callers : close_pc[t] = "idle"

\* TestExecutor.check_position_status()['is_open'] / RealExecutor's
PositionIsOpen ==
    IF trading_mode = "TEST" THEN current_position # NoPosition
    ELSE exchange_position # NoPosition

\* the exchange fills a market order of `amount` on `side` at `price`
ApplyOrder(pos, side, amount, price) ==
    IF pos = NoPosition
    THEN [side |-> side, amount |-> amount, entry_price |-> price]
    ELSE IF pos.side = side
    THEN [side |-> side, amount |-> pos.amount + amount,
          entry_price |-> (pos.entry_price * pos.amount + price * amount)
                              \div (pos.amount + amount)]
    ELSE IF pos.amount = amount THEN NoPosition
    ELSE IF pos.amount > amount
    THEN [pos EXCEPT !.amount = pos.amount - amount]
    ELSE [side |-> side, amount |-> amount - pos.amount, entry_price |-> price]

\* TestExecutor.update_market_price(current_price)
UpdateMarketPrice(price) ==
    /\ trading_mode = "TEST"
    /\ current_market_price # price
    /\ current_market_price' = price
    /\ UNCHANGED <<trading_frame, clock, current_position, current_balance,
                   order_id_counter, closing_in_progress, last_trigger_check,
                   real_vars, call_vars, trig_ret>>
    /\ UNCHANGED <<sched_vars, bot_vars, gate_vars, cache_vars>>

\* the market moves on the exchange
TickerMove(price) ==
    /\ trading_mode = "REAL"
    /\ ticker_last # price
    /\ ticker_last' = price
    /\ UNCHANGED <<trading_frame, clock, test_vars, order_in_progress,
                   last_order_time, exchange_position, exchange_open_orders,
                   exchange_orders, call_vars, trig_ret>>
    /\ UNCHANGED <<sched_vars, bot_vars, gate_vars, cache_vars>>

\* half a second passes
ClockTick ==
    /\ clock < ClockStart + MaxElapsed
    /\ clock' = clock + 1
    /\ UNCHANGED <<trading_frame, test_vars, real_vars, call_vars, trig_ret>>
    /\ UNCHANGED <<sched_vars, bot_vars, gate_vars, cache_vars>>

\* BaseExecutor.open_position on a TestExecutor whose market price is
\* current_price: set_leverage returns True, create_market_order stores the
\* new position over whatever current_position holds and reads the entry
\* price back from _current_market_price, the SL/TP orders only take ids
OpenTest(direction, pcts, current_price) ==
    /\ current_market_price' = current_price
    /\ LET amount == CalculateOrderAmount(MIN_INVESTMENT_AMOUNT, current_price)
           entry_price == current_market_price'
       IN  current_position' = [side |-> direction, amount |-> amount,
                                entry_price |-> entry_price]
    /\ order_id_counter' = order_id_counter + 3
    /\ opened' = opened + 1
    /\ open_ret' = OpenReturn("none")

\* The main loop enters a position on a TestExecutor: the iteration has
\* pushed current_price with update_market_price, check_position_status()
\* has reported no open position, and BaseExecutor.open_position runs
\* (create_market_order reads the entry price back from _current_market_price)
OpenPositionTest(direction, pcts, current_price) ==
    /\ trading_mode = "TEST"
    /\ AllIdle
    /\ ~PositionIsOpen
    /\ opened < MaxOpens
    /\ OpenTest(direction, pcts, current_price)
    /\ UNCHANGED <<trading_mode, clock, current_balance,
                   closing_in_progress, last_trigger_check, real_vars,
                   call_vars, trig_ret>>
    /\ UNCHANGED <<sched_vars, bot_vars, gate_vars, cache_vars>>

\* where an exchange call of open_position may fail
OpenFailures == {"none", "leverage", "order", "ticker", "sl", "tp"}

\* the exception open_position raises on a RealExecutor, "none" if it returns:
\* "Failed to set leverage", then create_market_order's "Order too frequent"
\* and "Another order is in progress", then the error of the failing call
OpenError(fail_at) ==
    IF fail_at = "leverage" THEN "leverage"
    ELSE IF clock - last_order_time < OrderWindow THEN "too_frequent"
    ELSE IF order_in_progress THEN "in_progress"
    ELSE fail_at

\* BaseExecutor.open_position on a RealExecutor: set_leverage,
\* create_market_order (order, fetch_ticker), create_stop_loss_order,
\* create_take_profit_order; the first exception leaves the method, what
\* the exchange has done by then stays done
OpenReal(direction, pcts, current_price, fail_at) ==
    LET amount == CalculateOrderAmount(MIN_INVESTMENT_AMOUNT, current_price)
        refused == \/ fail_at = "leverage"
                   \/ clock - last_order_time < OrderWindow
                   \/ order_in_progress
        filled == ~refused /\ fail_at # "order"
    IN  /\ last_order_time' = IF refused THEN last_order_time ELSE clock
        /\ order_in_progress' = order_in_progress
        /\ exchange_position' =
              IF filled
              THEN ApplyOrder(exchange_position, direction, amount, ticker_last)
              ELSE exchange_position
        /\ exchange_orders' =
              IF filled
              THEN [exchange_orders EXCEPT !.entry = @ + 1]
              ELSE exchange_orders
        /\ exchange_open_orders' =
              IF ~filled \/ fail_at \in {"ticker", "sl"} THEN exchange_open_orders
              ELSE IF fail_at = "tp" THEN exchange_open_orders \cup {"sl"}
              ELSE exchange_open_orders \cup {"sl", "tp"}
        /\ opened' = IF filled THEN opened + 1 ELSE opened
        /\ open_ret' = OpenReturn(OpenError(fail_at))

\* BaseExecutor.open_position on a RealExecutor, called with no position open
OpenPositionReal(direction, pcts, current_price, fail_at) ==
    /\ trading_mode = "REAL"
    /\ AllIdle
    /\ ~PositionIsOpen
    /\ opened < MaxOpens
    /\ OpenReal(direction, pcts, current_price, fail_at)
    /\ UNCHANGED <<trading_mode, clock, test_vars, ticker_last, call_vars, trig_ret>>
    /\ UNCHANGED <<sched_vars, bot_vars, gate_vars, cache_vars>>

----------------------------------------------------------------------------
(* close_position, one step per shared-state access, for each caller *)

SetPc(t, pc) == close_pc' = [close_pc EXCEPT ![t] = pc]

\* return before the try block: no finally clause runs
ReturnEarly(t, message) ==
    /\ close_ret' = [close_ret EXCEPT ![t] = CloseResult(FALSE, message, 0)]
    /\ SetPc(t, "done")
    /\ UNCHANGED close_local

\* a return or an exception inside the try block: finally runs next
Leave(t, result, finally_pc) ==
    /\ close_local' = [close_local EXCEPT ![t].result = result]
    /\ SetPc(t, finally_pc)
    /\ UNCHANGED close_ret

\* a caller enters executor.close_position(reason)
CloseCall(t) ==
    /\ close_pc[t] = "idle"
    /\ exchange_orders.close < MaxCloses
    /\ SetPc(t, IF trading_mode = "TEST" THEN "check_position" ELSE "r_check_flag")
    /\ UNCHANGED <<trading_frame, clock, test_vars, real_vars, close_local,
                   close_ret, trig_ret>>
    /\ UNCHANGED <<sched_vars, bot_vars, gate_vars, cache_vars>>

\* the caller takes the returned dict
CloseReturn(t) ==
    /\ close_pc[t] = "done"
    /\ SetPc(t, "idle")
    /\ close_local' = [close_local EXCEPT ![t] = NoLocal]
    /\ close_ret' = [close_ret EXCEPT ![t] = NoResult]
    /\ UNCHANGED <<trading_frame, clock, test_vars, real_vars, trig_ret>>
    /\ UNCHANGED <<sched_vars, bot_vars, gate_vars, cache_vars>>

\* the finally clause: value stored into the in-progress flag
FinallyFlag_OnSuccessOnly(result) == ~result.success

\* the finally clause: value stored into the in-progress flag
FinallyFlag(result) == FALSE

\* ---- TestExecutor.close_position ----

\* if not self.current_position: return failure
TestCheckPosition(t) ==
    /\ close_pc[t] = "check_position"
    /\ IF current_position = NoPosition
       THEN ReturnEarly(t, "No open position to close")
       ELSE SetPc(t, "check_flag") /\ UNCHANGED <<close_local, close_ret>>
    /\ UNCHANGED <<trading_frame, clock, test_vars, real_vars, trig_ret>>
    /\ UNCHANGED <<sched_vars, bot_vars, gate_vars, cache_vars>>

\* if self._closing_in_progress: return failure
TestCheckFlag(t) ==
    /\ close_pc[t] = "check_flag"
    /\ IF closing_in_progress
       THEN ReturnEarly(t, "Position close already in progress")
       ELSE SetPc(t, "set_flag") /\ UNCHANGED <<close_local, close_ret>>
    /\ UNCHANGED <<trading_frame, clock, test_vars, real_vars, trig_ret>>
    /\ UNCHANGED <<sched_vars, bot_vars, gate_vars, cache_vars>>

\* self._closing_in_progress = True
TestSetFlag(t) ==
    /\ close_pc[t] = "set_flag"
    /\ closing_in_progress' = TRUE
    /\ SetPc(t, "read_position")
    /\ UNCHANGED <<trading_frame, clock, current_market_price, current_position,
                   current_balance, order_id_counter, last_trigger_check,
                   real_vars, close_local, close_ret, trig_ret>>
    /\ UNCHANGED <<sched_vars, bot_vars, gate_vars, cache_vars>>

\* side, amount, entry_price = self.current_position[...]; current_price
\* (subscripting None raises TypeError, caught by `except Exception`)
TestReadPosition(t) ==
    /\ close_pc[t] = "read_position"
    /\ IF current_position = NoPosition
       THEN Leave(t, CloseResult(FALSE, "Error closing position", 0), "finally")
       ELSE /\ close_local' = [close_local EXCEPT ![t] =
                  [@ EXCEPT !.side = current_position.side,
                            !.amount = current_position.amount,
                            !.entry_price = current_position.entry_price,
                            !.exit_price =
                                IF current_market_price = Unset
                                THEN current_position.entry_price
                                ELSE current_market_price]]
            /\ SetPc(t, "load_balance")
            /\ UNCHANGED close_ret
    /\ UNCHANGED <<trading_frame, clock, test_vars, real_vars, trig_ret>>
    /\ UNCHANGED <<sched_vars, bot_vars, gate_vars, cache_vars>>

\* self.current_balance += profit_loss: the read
TestLoadBalance(t) ==
    /\ close_pc[t] = "load_balance"
    /\ close_local' = [close_local EXCEPT ![t].balance = current_balance]
    /\ SetPc(t, "store_balance")
    /\ UNCHANGED <<trading_frame, clock, test_vars, real_vars, close_ret, trig_ret>>
    /\ UNCHANGED <<sched_vars, bot_vars, gate_vars, cache_vars>>

\* self.current_balance += profit_loss: the write
TestStoreBalance(t) ==
    /\ close_pc[t] = "store_balance"
    /\ LET l == close_local[t]
       IN  current_balance' = l.balance +
               ProfitLoss(l.side, l.amount, l.entry_price, l.exit_price)
    /\ SetPc(t, "clear_position")
    /\ UNCHANGED <<trading_frame, clock, current_market_price, current_position,
                   order_id_counter, closing_in_progress, last_trigger_check,
                   real_vars, close_local, close_ret, trig_ret>>
    /\ UNCHANGED <<sched_vars, bot_vars, gate_vars, cache_vars>>

\* self.current_position = None; self.order_id_counter += 1; return result
TestClearPosition(t) ==
    /\ close_pc[t] = "clear_position"
    /\ current_position' = NoPosition
    /\ order_id_counter' = order_id_counter + 1
    /\ LET l == close_local[t]
       IN  Leave(t, CloseResult(TRUE, "closed",
                     ProfitLoss(l.side, l.amount, l.entry_price, l.exit_price)),
                 "finally")
    /\ UNCHANGED <<trading_frame, clock, current_market_price, current_balance,
                   closing_in_progress, last_trigger_check, real_vars, trig_ret>>
    /\ UNCHANGED <<sched_vars, bot_vars, gate_vars, cache_vars>>

\* finally: self._closing_in_progress = False; the result is returned
TestFinally(t) ==
    /\ close_pc[t] = "finally"
    /\ closing_in_progress' = FinallyFlag(close_local[t].result)
    /\ close_ret' = [close_ret EXCEPT ![t] = close_local[t].result]
    /\ SetPc(t, "done")
    /\ UNCHANGED <<trading_frame, clock, current_market_price, current_position,
                   current_balance, order_id_counter, last_trigger_check,
                   real_vars, close_local, trig_ret>>
    /\ UNCHANGED <<sched_vars, bot_vars, gate_vars, cache_vars>>

\* ---- RealExecutor.close_position ----

\* if self._order_in_progress: return failure
RealCheckFlag(t) ==
    /\ close_pc[t] = "r_check_flag"
    /\ IF order_in_progress
       THEN ReturnEarly(t, "Another operation is in progress")
       ELSE SetPc(t, "r_set_flag") /\ UNCHANGED <<close_local, close_ret>>
    /\ UNCHANGED <<trading_frame, clock, test_vars, real_vars, trig_ret>>
    /\ UNCHANGED <<sched_vars, bot_vars, gate_vars, cache_vars>>

\* self._order_in_progress = True
RealSetFlag(t) ==
    /\ close_pc[t] = "r_set_flag"
    /\ order_in_progress' = TRUE
    /\ SetPc(t, "check_status")
    /\ UNCHANGED <<trading_frame, clock, test_vars, last_order_time, ticker_last,
                   exchange_position, exchange_open_orders, exchange_orders,
                   close_local, close_ret, trig_ret>>
    /\ UNCHANGED <<sched_vars, bot_vars, gate_vars, cache_vars>>

\* position_status = self.check_position_status(); a failed fetch_positions
\* is reported as no open position
RealCheckStatus(t, ok) ==
    /\ close_pc[t] = "check_status"
    /\ IF ok /\ exchange_position # NoPosition
       THEN /\ close_local' = [close_local EXCEPT ![t] =
                  [@ EXCEPT !.side = exchange_position.side,
                            !.amount = exchange_position.amount,
                            !.entry_price = exchange_position.entry_price]]
            /\ SetPc(t, "cancel_orders")
            /\ UNCHANGED close_ret
       ELSE Leave(t, CloseResult(FALSE, "No open position to close", 0), "r_finally")
    /\ UNCHANGED <<trading_frame, clock, test_vars, real_vars, trig_ret>>
    /\ UNCHANGED <<sched_vars, bot_vars, gate_vars, cache_vars>>

\* cancel the open SL/TP orders; errors are printed and swallowed, so any
\* subset of the orders may be left resting
RealCancelOrders(t, left) ==
    /\ close_pc[t] = "cancel_orders"
    /\ left \subseteq exchange_open_orders
    /\ exchange_open_orders' = left
    /\ SetPc(t, "close_order")
    /\ UNCHANGED <<trading_frame, clock, test_vars, order_in_progress,
                   last_order_time, ticker_last, exchange_position,
                   exchange_orders, close_local, close_ret, trig_ret>>
    /\ UNCHANGED <<sched_vars, bot_vars, gate_vars, cache_vars>>

\* create_market_sell_order / create_market_buy_order against the position read
RealCloseOrder(t, ok) ==
    /\ close_pc[t] = "close_order"
    /\ IF ok
       THEN /\ exchange_position' =
                  ApplyOrder(exchange_position, OppositeSide(close_local[t].side),
                             close_local[t].amount, ticker_last)
            /\ exchange_orders' = [exchange_orders EXCEPT !.close = @ + 1]
            /\ SetPc(t, "fetch_ticker")
            /\ UNCHANGED <<close_local, close_ret>>
       ELSE /\ Leave(t, CloseResult(FALSE, "Error closing position", 0), "r_finally")
            /\ UNCHANGED <<exchange_position, exchange_orders>>
    /\ UNCHANGED <<trading_frame, clock, test_vars, order_in_progress,
                   last_order_time, ticker_last, exchange_open_orders, trig_ret>>
    /\ UNCHANGED <<sched_vars, bot_vars, gate_vars, cache_vars>>

\* exit_price = fetch_ticker()['last']; profit_loss; return result
RealFetchTicker(t, ok) ==
    /\ close_pc[t] = "fetch_ticker"
    /\ LET l == close_local[t]
       IN  IF ok
           THEN Leave(t, CloseResult(TRUE, "closed",
                        ProfitLoss(l.side, l.amount, l.entry_price, ticker_last)),
                      "r_finally")
           ELSE Leave(t, CloseResult(FALSE, "Error closing position", 0), "r_finally")
    /\ UNCHANGED <<trading_frame, clock, test_vars, real_vars, trig_ret>>
    /\ UNCHANGED <<sched_vars, bot_vars, gate_vars, cache_vars>>

\* finally: self._order_in_progress = False; the result is returned
RealFinally(t) ==
    /\ close_pc[t] = "r_finally"
    /\ order_in_progress' = FinallyFlag(close_local[t].result)
    /\ close_ret' = [close_ret EXCEPT ![t] = close_local[t].result]
    /\ SetPc(t, "done")
    /\ UNCHANGED <<trading_frame, clock, test_vars, last_order_time, ticker_last,
                   exchange_position, exchange_open_orders, exchange_orders,
                   close_local, trig_ret>>
    /\ UNCHANGED <<sched_vars, bot_vars, gate_vars, cache_vars>>

----------------------------------------------------------------------------
(* TestExecutor.check_sl_tp_triggers *)

\* `time` is a name bound in the module (test_executor.py imports typing,
\* datetime and base_executor only)
TimeIsImported == FALSE

\* check_sl_tp_triggers(current_price, sl_price, tp_price) called at `now`:
\* what it returns (or raises) and the value it leaves in _last_trigger_check
CheckTriggers(now, last, position, current_price, sl_price, tp_price) ==
    IF ~TimeIsImported
    THEN [result |-> "NameError", last |-> last]
    ELSE IF now - last < TriggerCheckWindow
    THEN [result |-> "none", last |-> last]
    ELSE IF position = NoPosition
    THEN [result |-> "none", last |-> now]
    ELSE IF position.side = "long"
    THEN [result |-> IF current_price * 100 <= sl_price THEN "stop_loss"
                     ELSE IF current_price * 100 >= tp_price THEN "take_profit"
                     ELSE "none",
          last |-> now]
    ELSE [result |-> IF current_price * 100 >= sl_price THEN "stop_loss"
                     ELSE IF current_price * 100 <= tp_price THEN "take_profit"
                     ELSE "none",
          last |-> now]

\* the main loop's call: sl_price and tp_price are those of the open trade
CheckSlTpTriggers(current_price, pcts) ==
    /\ trading_mode = "TEST"
    /\ LET side == IF current_position = NoPosition THEN "long"
                   ELSE current_position.side
           entry == IF current_position = NoPosition THEN current_price
                    ELSE current_position.entry_price
           p == CalculateSlTpPrices(side, entry, pcts[1], pcts[2])
           r == CheckTriggers(clock, last_trigger_check, current_position,
                              current_price, p.sl_price, p.tp_price)
       IN  /\ last_trigger_check' = r.last
           /\ trig_ret' = [called |-> TRUE, at |-> clock,
                           rapid |-> trig_ret.called
                                     /\ clock - trig_ret.at < TriggerCheckWindow,
                           side |-> current_position.side,
                           price |-> current_price,
                           sl_price |-> p.sl_price, tp_price |-> p.tp_price,
                           last_before |-> last_trigger_check,
                           result |-> r.result]
    /\ UNCHANGED <<trading_frame, clock, current_market_price, current_position,
                   current_balance, order_id_counter, closing_in_progress,
                   real_vars, call_vars>>
    /\ UNCHANGED <<sched_vars, bot_vars, gate_vars, cache_vars>>

----------------------------------------------------------------------------
(* TradingBot._main_loop_iteration *)

\* open_position calls the model lets the main loop make
MaxEntries == 2

\* time.sleep at the end of an iteration (POSITION_CHECK_INTERVAL), half seconds
SleepHalfSeconds == 10

\* no iteration has called check_position_status() yet
NoStatus == [checked |-> FALSE, is_open |-> FALSE]

\* no iteration has run yet
NoIteration == [parity |-> 0, handler |-> "none", update_failed |-> FALSE]

\* the handler an iteration ends in: _handle_open_position, or
\* _handle_no_position returning at its 50 s debounce or going on to decide
Handler(is_open, recent) ==
    IF is_open THEN "open" ELSE IF recent THEN "debounced" ELSE "decided"

\* what the decision chain answers: a direction to enter, "NO_POSITION", or
\* no usable decision (success False, or an exception of the balance / P&L
\* reads that precede it)
DecisionOutcomes == Sides \cup {"NO_POSITION", "error"}

\* risk parameters of the decisions the main loop receives
LoopPcts == {<<5, 11>>}

\* a row of the trades table (save_trade inserts it with status 'OPEN')
TradeRecord(side, sl_price, tp_price) ==
    [status |-> "OPEN", side |-> side, sl_price |-> sl_price, tp_price |-> tp_price,
     profit_loss |-> 0]

\* get_latest_open_trade: WHERE status='OPEN' ORDER BY timestamp DESC LIMIT 1,
\* as a row id (0 for None)
LatestOpenTrade(tr) ==
    LET open == {i \in DOMAIN tr : tr[i].status = "OPEN"}
    IN  IF open = {} THEN 0 ELSE CHOOSE i \in open : \A j \in open : j <= i

\* executor.check_position_status()['is_open']: the TestExecutor reads its
\* own current_position; the RealExecutor asks the exchange, and answers
\* is_open False when the query raises
CheckPositionStatus(status_ok) ==
    IF trading_mode = "TEST" THEN current_position # NoPosition
    ELSE status_ok /\ exchange_position # NoPosition

\* an update_trade_status that writes nothing
UpdateTradeStatus_Keep(tr, trade_id, profit_loss) == tr

\* update_trade_status(trade_id, 'CLOSED', ..., profit_loss=...) of
\* _handle_position_closure
UpdateTradeStatus(tr, trade_id, profit_loss) ==
    [tr EXCEPT ![trade_id].status = "CLOSED", ![trade_id].profit_loss = profit_loss]

\* an on_trade_completed that tells the scheduler nothing
OnTradeCompleted_Silent == UNCHANGED <<aps_jobs, sched_ret>>

\* on_trade_completed() -> trigger_chain("performance"): a date job one
\* second ahead, refused when a job of that second is already stored
OnTradeCompleted ==
    LET job == [chain |-> "performance", kind |-> "manual", sec |-> epoch]
    IN  IF AddJobConflicts(aps_jobs, job)
        THEN /\ sched_ret' = TriggerChainReturn("performance", FALSE)
             /\ UNCHANGED aps_jobs
        ELSE /\ aps_jobs' = AddJob(aps_jobs, job)
             /\ sched_ret' = TriggerChainReturn("performance", TRUE)

\* time.time() after the sleep that ends an iteration: the sleep is longer
\* than both rate-limit windows, and only the distance to the last order and
\* the last trigger check is ever read, so the clock stops at the first
\* instant both windows have passed
AfterSleep(now, last_order, last_check) ==
    LET order_free == IF last_order + OrderWindow < now + SleepHalfSeconds
                      THEN last_order + OrderWindow ELSE now + SleepHalfSeconds
        check_free == IF last_check + TriggerCheckWindow < now + SleepHalfSeconds
                      THEN last_check + TriggerCheckWindow ELSE now + SleepHalfSeconds
        free == IF order_free > check_free THEN order_free ELSE check_free
    IN  IF free > now THEN free ELSE now

\* one pass of the while loop: the price is fetched (TEST: pushed into the
\* executor), check_position_status() is asked, then either
\* _handle_open_position (TEST only: _check_sl_tp_triggers, close_position,
\* _handle_position_closure) or _handle_no_position (debounce,
\* _cleanup_previous_position, decision, _enter_position, _save_trade_record),
\* then the sleep.  Every handler catches its exceptions: a failed
\* update_trade_status, open_position or save_trade is logged and the loop
\* goes on.
MainLoopIteration(price, status_ok, recent, decision, pcts, fail_at, save_ok, update_ok) ==
    /\ bot_pc = "main_loop"
    /\ bot_is_running
    /\ AllIdle
    /\ LET is_open == CheckPositionStatus(status_ok)
           latest == LatestOpenTrade(trades)
           monitor == trading_mode = "TEST" /\ is_open /\ latest # 0
           r == IF monitor
                THEN CheckTriggers(clock, last_trigger_check, current_position, price,
                                   trades[latest].sl_price, trades[latest].tp_price)
                ELSE [result |-> "none", last |-> last_trigger_check]
           close_ok == r.result \in {"stop_loss", "take_profit"} /\ ~closing_in_progress
           decide == ~is_open /\ ~recent
           cleanup == decide /\ latest # 0
           closure == (close_ok \/ cleanup) /\ update_ok
           enter == decide /\ decision \in Sides
           entry_price == IF trading_mode = "TEST" THEN price ELSE ticker_last
           p == CalculateSlTpPrices(decision, entry_price, pcts[1], pcts[2])
       IN  /\ enter => /\ opened < MaxEntries
                       /\ clock < ClockStart + MaxEntries * OrderWindow
           /\ trading_mode = "TEST" => fail_at = "none"
           /\ position_status' = [checked |-> TRUE, is_open |-> is_open]
           /\ iteration' = [parity |-> 1 - iteration.parity,
                            handler |-> Handler(is_open, recent),
                            update_failed |-> (close_ok \/ cleanup) /\ ~update_ok]
           /\ IF closure THEN OnTradeCompleted ELSE UNCHANGED <<aps_jobs, sched_ret>>
           /\ last_trigger_check' = r.last
           /\ trig_ret' = IF monitor
                          THEN [called |-> TRUE, at |-> clock,
                                rapid |-> trig_ret.called
                                          /\ clock - trig_ret.at < TriggerCheckWindow,
                                side |-> current_position.side, price |-> price,
                                sl_price |-> trades[latest].sl_price,
                                tp_price |-> trades[latest].tp_price,
                                last_before |-> last_trigger_check,
                                result |-> r.result]
                          ELSE trig_ret
           /\ IF enter /\ trading_mode = "TEST"
              THEN /\ OpenTest(decision, pcts, price)
                   /\ UNCHANGED <<current_balance, real_vars>>
              ELSE IF enter
              THEN /\ OpenReal(decision, pcts, price, fail_at)
                   /\ UNCHANGED <<current_market_price, current_position, current_balance,
                                  order_id_counter, ticker_last>>
              ELSE IF close_ok
              THEN /\ current_market_price' = price
                   /\ current_balance' =
                         current_balance
                         + ProfitLoss(current_position.side, current_position.amount,
                                      current_position.entry_price, price)
                   /\ current_position' = NoPosition
                   /\ UNCHANGED <<order_id_counter, real_vars, opened, open_ret>>
              ELSE /\ current_market_price' =
                         IF trading_mode = "TEST" THEN price ELSE current_market_price
                   /\ UNCHANGED <<current_position, current_balance, order_id_counter,
                                  real_vars, opened, open_ret>>
           /\ trades' =
                 LET profit_loss ==
                         IF close_ok
                         THEN ProfitLoss(current_position.side, current_position.amount,
                                         current_position.entry_price, price)
                         ELSE 0
                     kept == IF closure
                             THEN UpdateTradeStatus(trades, latest, profit_loss)
                             ELSE trades
                 IN  IF enter /\ ~open_ret'.raised /\ save_ok
                     THEN Append(kept, TradeRecord(decision, p.sl_price, p.tp_price))
                     ELSE kept
           /\ clock' = AfterSleep(clock, last_order_time', last_trigger_check')
    /\ UNCHANGED <<trading_mode, closing_in_progress, call_vars>>
    /\ UNCHANGED <<is_running, initialization_complete, initialization_results,
                   job_stats, aps_state, executions, epoch, submitted, submit_result,
                   start_pc, init_idx, init_attempt, failed_chains>>
    /\ UNCHANGED <<startup_frame, interval_fired, bot_pc, bot_is_running, cache_vars,
                   decision_vars, thread_vars>>

----------------------------------------------------------------------------
(* Claims about the executors *)

\* the caller is inside the try block of close_position
InsideTry(t) ==
    close_pc[t] \in {"read_position", "load_balance", "store_balance",
                     "clear_position", "finally",
                     "check_status", "cancel_orders", "close_order",
                     "fetch_ticker", "r_finally"}

Winners == {t \in Callers : close_ret[t].success}

\* C4: for one open position, two close_position calls, made one after the
\* other or concurrently in any interleaving, close it exactly once: at most
\* one call succeeds, the simulated balance moves by the realized P/L of one
\* close, and the exchange receives one closing order.
C4_ExactlyOneClose ==
    (\A t \in Callers : close_pc[t] = "done") =>
        /\ Cardinality(Winners) <= 1
        /\ trading_mode = "TEST" =>
              /\ Cardinality(Winners) = 1
              /\ \A t \in Winners :
                    current_balance =
                        ToBalance(INITIAL_TEST_BALANCE) + close_ret[t].profit_loss
        /\ trading_mode = "REAL" =>
              /\ exchange_orders.close <= 1
              /\ exchange_orders.close = 1 => exchange_position = NoPosition

ExpectedTrigger(side, price, sl_price, tp_price) ==
    IF side = "long"
    THEN IF price * 100 <= sl_price THEN "stop_loss"
         ELSE IF price * 100 >= tp_price THEN "take_profit" ELSE "none"
    ELSE IF side = "short"
    THEN IF price * 100 >= sl_price THEN "stop_loss"
         ELSE IF price * 100 <= tp_price THEN "take_profit" ELSE "none"
    ELSE "none"

\* C6: a check_sl_tp_triggers call that the debounce does not suppress
\* returns, on an open position, stop_loss for a long when price <= sl_price
\* and take_profit when price >= tp_price, for a short stop_loss when
\* price >= sl_price and take_profit when price <= tp_price, and none
\* otherwise; with no open position it returns none.
C6_DirectionAwareTriggers ==
    (/\ trig_ret.called
     /\ trig_ret.at - trig_ret.last_before >= TriggerCheckWindow)
    => trig_ret.result = ExpectedTrigger(trig_ret.side, trig_ret.price,
                                         trig_ret.sl_price, trig_ret.tp_price)

\* C7: a check_sl_tp_triggers call made less than the minimum elapsed time
\* (0.5 s) after the previous call returns no trigger and leaves
\* _last_trigger_check as it was.
C7_RapidCallSuppressed ==
    (trig_ret.called /\ trig_ret.rapid)
    => /\ trig_ret.result = "none"
       /\ last_trigger_check = trig_ret.last_before

\* C19 (a failed exchange operation changes nothing): an open_position call
\* in which an exchange operation fails raises to its caller and leaves the
\* position, the protective orders and the balance as they were before the
\* call (Flat stays Flat); a close_position call that found the position
\* open and then failed returns success=false and leaves that position, with
\* the fields the call read, and the balance in place.
C19_FailedOperationChangesNothing ==
    [][/\ \A d \in Sides, pcts \in DecisionPcts, p \in Prices, f \in OpenFailures :
             OpenPositionReal(d, pcts, p, f) =>
                /\ f # "none" => open_ret'.raised
                /\ open_ret'.raised =>
                      /\ exchange_position' = exchange_position
                      /\ exchange_open_orders' = exchange_open_orders
                      /\ current_balance' = current_balance
       /\ \A t \in Callers :
             (/\ close_pc[t] # "done"
              /\ close_pc'[t] = "done"
              /\ ~close_ret'[t].success
              /\ close_local'[t].side # "none") =>
                /\ exchange_position' = [side |-> close_local'[t].side,
                                         amount |-> close_local'[t].amount,
                                         entry_price |-> close_local'[t].entry_price]
                /\ current_balance' = ToBalance(INITIAL_TEST_BALANCE)
      ]_vars


----------------------------------------------------------------------------
(* Claims about the main loop *)

\* C18 (a position is opened only from Flat): whenever an entry order is
\* filled (a simulated position stored), no position was open just before,
\* so an open never overwrites or stacks on an existing open position.
C18_OpenOnlyFromFlat ==
    [][opened' > opened => ~PositionIsOpen]_vars

\* an iteration of the main loop has run
Ticked == iteration'.parity # iteration.parity

C20_OpenPositionIsTracked ==
    [][/\ PositionIsOpen' => LatestOpenTrade(trades') # 0
       /\ (PositionIsOpen /\ position_status' # position_status)
              => position_status'.is_open
       /\ PositionIsOpen => /\ exchange_orders'.entry = exchange_orders.entry
                            /\ order_id_counter' = order_id_counter
      ]_vars
----------------------------------------------------------------------------
(* utils/kelly_utils.py: position sizing                                   *)
(*   conviction, sl, tp   percent (55 is 0.55)                             *)
(*   balance, price, pnl  whole dollars                                    *)
(*   fractions, amounts   exact rationals [num, den], den > 0, reduced     *)

RECURSIVE GCD(_, _)
GCD(a, b) == IF b = 0 THEN a ELSE GCD(b, a % b)

Abs(n) == IF n < 0 THEN -n ELSE n

\* the rational n / d in lowest terms, d # 0
Rat(n, d) ==
    LET g == GCD(Abs(n), Abs(d))
        sign == IF d < 0 THEN -1 ELSE 1
    IN  [num |-> sign * (n \div g), den |-> sign * (d \div g)]

Zero == Rat(0, 1)

\* products and sums reduce before they multiply, as far as they can
RatMul(a, b) ==
    LET g1 == GCD(Abs(a.num), b.den)
        g2 == GCD(Abs(b.num), a.den)
    IN  Rat((a.num \div g1) * (b.num \div g2), (a.den \div g2) * (b.den \div g1))
RatDiv(a, b) == RatMul(a, [num |-> IF b.num < 0 THEN -b.den ELSE b.den,
                           den |-> Abs(b.num)])
RatAdd(a, b) ==
    LET g == GCD(a.den, b.den)
    IN  Rat(a.num * (b.den \div g) + b.num * (a.den \div g), (a.den \div g) * b.den)
RatSub(a, b) == RatAdd(a, [b EXCEPT !.num = -b.num])
RatLt(a, b) ==
    LET g == GCD(a.den, b.den)
    IN  a.num * (b.den \div g) < b.num * (a.den \div g)
RatLe(a, b) == ~RatLt(b, a)
RatMin(a, b) == IF RatLt(b, a) THEN b ELSE a
RatMax(a, b) == IF RatLt(a, b) THEN b ELSE a

\* math.floor / math.ceil of a rational
Floor(a) == a.num \div a.den
Ceil(a) == -((-a.num) \div a.den)

\* Config.KELLY_SETTINGS
max_position_size == Rat(50, 100)
kelly_fraction == Rat(25, 100)
min_conviction == 55
config_max_leverage == 10

\* Config.RISK_SETTINGS["daily_loss_limit"]
daily_loss_limit == Rat(5, 100)

\* KellyCalculator._validate_inputs: TRUE when it raises ValueError
ValidateInputsRaises(conviction, sl_percent, tp_percent, available_balance) ==
    \/ ~(0 <= conviction /\ conviction <= 100)
    \/ ~(0 < sl_percent /\ sl_percent < 100)
    \/ ~(0 < tp_percent /\ tp_percent < 100)
    \/ available_balance <= 0
    \/ tp_percent <= sl_percent

\* _no_position_result(reason), and the rejections of check_risk_limits
NoPositionResult(reason) ==
    [success |-> FALSE, raised |-> FALSE, reason |-> reason,
     position_fraction |-> Zero, investment_amount |-> Zero, btc_amount |-> Zero,
     leverage |-> 1, raw_kelly |-> Zero, adjusted_kelly |-> Zero,
     max_loss_amount |-> Zero, method |-> "none"]

\* the ValueError of _validate_inputs leaving calculate_kelly_position
RaisedResult == [NoPositionResult("ValueError") EXCEPT !.raised = TRUE]

\* a leverage that ignores max_leverage
CalculateOptimalLeverage_Uncapped(conviction, sl_percent, max_leverage) ==
    LET by_conviction == Floor(Rat(conviction * 20, 100))
        by_sl == Floor(RatDiv(Rat(10, 100), Rat(sl_percent, 100)))
    IN  IF by_conviction < by_sl THEN by_conviction ELSE by_sl

\* KellyCalculator._calculate_optimal_leverage
CalculateOptimalLeverage(conviction, sl_percent, max_leverage) ==
    LET by_conviction == Floor(Rat(conviction * 20, 100))
        by_sl == Floor(RatDiv(Rat(10, 100), Rat(sl_percent, 100)))
        base_leverage == IF by_conviction < by_sl THEN by_conviction ELSE by_sl
        capped == IF base_leverage < max_leverage THEN base_leverage ELSE max_leverage
        safe_leverage == IF capped < 1 THEN 1 ELSE capped
    IN  IF sl_percent >= 5 /\ safe_leverage > 5 THEN 5 ELSE safe_leverage

\* a sizer without the minimum conviction check
BelowMinConviction_Never(conviction) == FALSE

\* if conviction < kelly_config["min_conviction"]
BelowMinConviction(conviction) == conviction < min_conviction

\* KellyCalculator.calculate_position_size
CalculatePositionSize(conviction, sl_percent, tp_percent, available_balance, current_price, max_leverage) ==
    IF ValidateInputsRaises(conviction, sl_percent, tp_percent, available_balance)
    THEN RaisedResult
    ELSE IF BelowMinConviction(conviction) THEN NoPositionResult("conviction")
    ELSE
    LET win_loss_ratio == RatDiv(Rat(tp_percent, 100), Rat(sl_percent, 100))
        win_probability == Rat(conviction, 100)
        lose_probability == RatSub(Rat(1, 1), win_probability)
        raw_kelly == RatDiv(RatSub(RatMul(win_probability, win_loss_ratio),
                                   lose_probability),
                            win_loss_ratio)
        adjusted_kelly == RatMul(raw_kelly, kelly_fraction)
        position_fraction == RatMin(adjusted_kelly, max_position_size)
    IN  IF RatLe(position_fraction, Rat(1, 100)) THEN NoPositionResult("too_small")
        ELSE
        LET investment_amount ==
                RatMax(RatMul(Rat(available_balance, 1), position_fraction),
                       Rat(MIN_INVESTMENT_AMOUNT, 1))
            max_lev == IF max_leverage = 0 THEN config_max_leverage ELSE max_leverage
            optimal_leverage == CalculateOptimalLeverage(conviction, sl_percent, max_lev)
            btc_amount ==
                Rat(Ceil(RatMul(RatDiv(investment_amount, Rat(current_price, 1)),
                                Rat(1000, 1))),
                    1000)
            actual_investment == RatMul(btc_amount, Rat(current_price, 1))
            actual_position_fraction ==
                RatDiv(actual_investment, Rat(available_balance, 1))
        IN  [success |-> TRUE, raised |-> FALSE, reason |-> "none",
             position_fraction |-> actual_position_fraction,
             investment_amount |-> actual_investment,
             btc_amount |-> btc_amount,
             leverage |-> optimal_leverage,
             raw_kelly |-> raw_kelly, adjusted_kelly |-> adjusted_kelly,
             max_loss_amount |->
                 RatMul(RatMul(actual_investment, Rat(sl_percent, 100)),
                        Rat(optimal_leverage, 1)),
             method |-> "kelly"]

\* a risk check that lets every sizing through as it is
CheckRiskLimits_NoCheck(position_result, available_balance, daily_pnl) ==
    position_result

\* RiskManager.check_risk_limits(position_result, available_balance, daily_pnl)
CheckRiskLimits(position_result, available_balance, daily_pnl) ==
    IF ~position_result.success THEN position_result
    ELSE
    LET limit == RatMul(Rat(available_balance, 1), daily_loss_limit)
        pnl == Rat(daily_pnl, 1)
        max_loss == position_result.max_loss_amount
        remaining_daily_limit == RatAdd(limit, pnl)
    IN  IF RatLt(pnl, RatSub(Zero, limit)) THEN NoPositionResult("daily_loss")
        ELSE IF RatLt(remaining_daily_limit, max_loss)
        THEN LET max_loss_percent == RatDiv(max_loss, Rat(available_balance, 1))
                 safe_investment ==
                     RatDiv(remaining_daily_limit,
                            RatDiv(max_loss_percent, position_result.position_fraction))
                 adjustment_factor ==
                     RatDiv(safe_investment, position_result.investment_amount)
             IN  IF RatLt(adjustment_factor, Rat(1, 2))
                 THEN NoPositionResult("reduction")
                 ELSE [position_result EXCEPT
                          !.investment_amount = RatMul(@, adjustment_factor),
                          !.btc_amount = RatMul(@, adjustment_factor),
                          !.position_fraction = RatMul(@, adjustment_factor)]
        ELSE position_result

\* calculate_kelly_position with Config.USE_KELLY_CRITERION = use_kelly
CalculateKellyPosition(use_kelly, conviction, sl_percent, tp_percent, available_balance, current_price, daily_pnl, max_leverage) ==
    IF ~use_kelly
    THEN LET tenth == RatMul(Rat(available_balance, 1), Rat(1, 10))
             capped == RatMul(Rat(available_balance, 1), max_position_size)
             investment == RatMin(tenth, capped)
         IN  IF available_balance = 0 \/ current_price = 0 \/ sl_percent = 0
             THEN [RaisedResult EXCEPT !.reason = "ZeroDivisionError"]
             ELSE [success |-> TRUE, raised |-> FALSE, reason |-> "none",
                   position_fraction |-> RatDiv(investment, Rat(available_balance, 1)),
                   investment_amount |-> investment,
                   btc_amount |-> RatDiv(investment, Rat(current_price, 1)),
                   leverage |-> 3,
                   raw_kelly |-> Zero, adjusted_kelly |-> Zero,
                   max_loss_amount |->
                       RatMul(RatMul(investment, Rat(sl_percent, 100)), Rat(3, 1)),
                   method |-> "fixed_fraction"]
    ELSE CheckRiskLimits(
             CalculatePositionSize(conviction, sl_percent, tp_percent,
                                   available_balance, current_price, max_leverage),
             available_balance, daily_pnl)

\* no sizing call has been made
NoSizing == [called |-> FALSE]

\* inputs of the sizing calls: conviction around min_conviction and out of
\* range, risk parameters with tp above, equal to and below sl, balances
\* below and above the minimum investment, day results around the loss limit
Convictions == {-1, 30, 54, 55, 65, 90, 101}
SlPercents == {0, 3, 5, 7}
TpPercents == {3, 6, 10}
Balances == {0, 150, 1000, 10000}
SizingPrices == {3, 100}
DailyPnls == {-600, -400, -40, 0, 100}
MaxLeverages == {0, 1, 20}

SizingInputs ==
    [use_kelly : BOOLEAN, conviction : Convictions, sl_percent : SlPercents,
     tp_percent : TpPercents, available_balance : Balances,
     current_price : SizingPrices, daily_pnl : DailyPnls,
     max_leverage : MaxLeverages]

\* calculate_kelly_position(...) is called with the inputs drawn
SizePosition ==
    /\ ~sizing_out.called
    /\ sizing_out' =
          [called |-> TRUE,
           result |-> CalculateKellyPosition(
                          sizing_in.use_kelly, sizing_in.conviction,
                          sizing_in.sl_percent, sizing_in.tp_percent,
                          sizing_in.available_balance, sizing_in.current_price,
                          sizing_in.daily_pnl, sizing_in.max_leverage)]
    /\ UNCHANGED <<sizing_in, retry_vars, oracle_vars, tick_vars, thread_vars>>
    /\ UNCHANGED <<sched_vars, gate_vars, bot_pc, bot_is_running, trading_vars,
                   cache_vars>>

----------------------------------------------------------------------------
(* utils/retry_utils.py                                                    *)
(*   delays   seconds, exact rationals                                     *)

\* exception classes the wrapped operation may raise, with the classes each
\* one is an instance of (Python's hierarchy; NetworkError is the module's
\* own RetryableError subclass; JSONDecodeError is a ValueError)
ErrorClasses ==
    {"ConnectionError", "TimeoutError", "OSError", "ValueError",
     "JSONDecodeError", "KeyError", "RuntimeError", "NetworkError",
     "KeyboardInterrupt"}

Bases(class) ==
    CASE class = "ConnectionError" ->
            {"ConnectionError", "OSError", "Exception", "BaseException"}
      [] class = "TimeoutError" ->
            {"TimeoutError", "OSError", "Exception", "BaseException"}
      [] class = "OSError" -> {"OSError", "Exception", "BaseException"}
      [] class = "ValueError" -> {"ValueError", "Exception", "BaseException"}
      [] class = "JSONDecodeError" ->
            {"JSONDecodeError", "ValueError", "Exception", "BaseException"}
      [] class = "KeyError" ->
            {"KeyError", "LookupError", "Exception", "BaseException"}
      [] class = "RuntimeError" -> {"RuntimeError", "Exception", "BaseException"}
      [] class = "NetworkError" ->
            {"NetworkError", "RetryableError", "Exception", "BaseException"}
      [] OTHER -> {"KeyboardInterrupt", "BaseException"}

\* any(isinstance(e, exc_type) for exc_type in types)
IsInstanceOfAny(class, types) == Bases(class) \cap types # {}

\* the retry wrappers of the module, by the name of what builds them:
\* retry_with_backoff() with its defaults, retry_on_llm_error(2),
\* retry_on_market_data_error(2), safe_network_call, a retry_with_backoff
\* given jitter=False, a low max_delay and the module's RetryableError, and
\* safe_api_call's RetryHandler(max_retries=3, base_delay=2.0)
RetryPolicies ==
    [retry_with_backoff |->
        [kind |-> "backoff", max_retries |-> 3, base_delay |-> 1, max_delay |-> 60,
         backoff_multiplier |-> 2, jitter |-> TRUE,
         retryable_exceptions |->
             {"ConnectionError", "TimeoutError", "OSError", "Exception"}],
     retry_on_llm_error |->
        [kind |-> "backoff", max_retries |-> 2, base_delay |-> 2, max_delay |-> 10,
         backoff_multiplier |-> 2, jitter |-> TRUE,
         retryable_exceptions |-> {"ConnectionError", "TimeoutError", "OSError"}],
     retry_on_market_data_error |->
        [kind |-> "backoff", max_retries |-> 2, base_delay |-> 1, max_delay |-> 5,
         backoff_multiplier |-> 2, jitter |-> TRUE,
         retryable_exceptions |-> {"ConnectionError", "TimeoutError"}],
     safe_network_call |->
        [kind |-> "backoff", max_retries |-> 2, base_delay |-> 1, max_delay |-> 60,
         backoff_multiplier |-> 2, jitter |-> TRUE,
         retryable_exceptions |-> {"ConnectionError", "TimeoutError", "OSError"}],
     plain_backoff |->
        [kind |-> "backoff", max_retries |-> 3, base_delay |-> 1, max_delay |-> 3,
         backoff_multiplier |-> 2, jitter |-> FALSE,
         retryable_exceptions |-> {"RetryableError"}],
     safe_api_call |->
        [kind |-> "handler", max_retries |-> 3, base_delay |-> 2, max_delay |-> 30,
         backoff_multiplier |-> 2, jitter |-> FALSE,
         retryable_exceptions |-> {}]]

PolicyNames == DOMAIN RetryPolicies

\* RetryHandler.should_retry: the classes it never retries
non_retryable_errors == {"ValueError", "TypeError", "KeyError", "AttributeError"}

RECURSIVE Power(_, _)
Power(base, exponent) == IF exponent = 0 THEN 1 ELSE base * Power(base, exponent - 1)

\* min(base_delay * (backoff_multiplier ** attempt), max_delay), and
\* RetryHandler.get_delay's min(base_delay * 2 ** attempt_count, 30.0)
BackoffDelay(policy, attempt) ==
    LET delay == policy.base_delay * Power(policy.backoff_multiplier, attempt)
    IN  IF delay < policy.max_delay THEN delay ELSE policy.max_delay

\* random.random(), in thousandths
RandomDraws == {0, 500, 999}

\* delay * (0.5 + random.random() * 0.5)
Jittered(delay, draw) == RatMul(Rat(delay, 1), Rat(1000 + draw, 2000))

\* a loop that never sees its last attempt
IsLastTry_Never(policy, attempt) == FALSE

\* if attempt == max_retries (retry_with_backoff);
\* if self.attempt_count >= self.max_retries (RetryHandler.should_retry)
IsLastTry(policy, attempt) ==
    IF policy.kind = "backoff" THEN attempt = policy.max_retries
    ELSE attempt >= policy.max_retries

\* whether the wrapper goes on after `class` was raised in attempt `attempt`;
\* `except Exception` does not catch what is no Exception
Retries(policy, class, attempt) ==
    /\ "Exception" \in Bases(class)
    /\ IF policy.kind = "backoff"
       THEN /\ IsInstanceOfAny(class, policy.retryable_exceptions)
            /\ ~IsLastTry(policy, attempt)
       ELSE /\ ~IsLastTry(policy, attempt)
            /\ ~IsInstanceOfAny(class, non_retryable_errors)

\* no wrapped call is in progress
NoRetry == [pc |-> "idle", attempt |-> 0, calls |-> 0, slept |-> <<>>,
            error |-> "none"]

\* the wrapper calls func: it returns `outcome` = "ok" or raises that class
RetryCall(outcome) ==
    /\ retry_st.pc = "call"
    /\ LET policy == RetryPolicies[retry_in]
       IN  retry_st' =
              IF outcome = "ok"
              THEN [retry_st EXCEPT !.pc = "returned", !.calls = @ + 1,
                                    !.error = "none"]
              ELSE IF Retries(policy, outcome, retry_st.attempt)
              THEN [retry_st EXCEPT !.pc = "sleep", !.calls = @ + 1,
                                    !.error = outcome]
              ELSE [retry_st EXCEPT !.pc = "raised", !.calls = @ + 1,
                                    !.error = outcome]
    /\ UNCHANGED <<retry_in, sizing_vars, oracle_vars, tick_vars, thread_vars>>
    /\ UNCHANGED <<sched_vars, gate_vars, bot_pc, bot_is_running, trading_vars,
                   cache_vars>>

\* time.sleep(delay) before the next attempt; the RetryHandler counts the
\* attempt before it computes the delay
RetrySleep(draw) ==
    /\ retry_st.pc = "sleep"
    /\ LET policy == RetryPolicies[retry_in]
           delay == IF policy.kind = "backoff"
                    THEN BackoffDelay(policy, retry_st.attempt)
                    ELSE BackoffDelay(policy, retry_st.attempt + 1)
       IN  retry_st' =
              [retry_st EXCEPT !.pc = "call", !.attempt = @ + 1,
                               !.slept = Append(@, IF policy.jitter
                                                   THEN Jittered(delay, draw)
                                                   ELSE Rat(delay, 1))]
    /\ UNCHANGED <<retry_in, sizing_vars, oracle_vars, tick_vars, thread_vars>>
    /\ UNCHANGED <<sched_vars, gate_vars, bot_pc, bot_is_running, trading_vars,
                   cache_vars>>

----------------------------------------------------------------------------
(* Claims about the retry wrappers *)

Policy == RetryPolicies[retry_in]

\* the delay the wrapper computes before retry number i (attempt i - 1)
NominalDelay(i) == Rat(BackoffDelay(Policy, i - 1), 1)

\* C25 (retry_with_backoff): the wrapped operation is called at most
\* max_retries + 1 times; the wrapper returns as soon as a call succeeds;
\* it goes on only after a failure of a retryable class with attempts left,
\* and then sleeps min(base * multiplier^attempt, max_delay), times a
\* factor in [0.5, 1.0] when jitter is on, exactly once before the next
\* call; any other failure, or the failure of the last attempt, is re-raised
\* with no further call.
C25_BoundedRetryWithBackoff ==
    Policy.kind = "backoff" =>
        /\ retry_st.calls <= Policy.max_retries + 1
        /\ retry_st.pc = "call" => /\ Len(retry_st.slept) = retry_st.calls
                                   /\ retry_st.attempt = retry_st.calls
        /\ retry_st.pc # "call" => /\ Len(retry_st.slept) = retry_st.calls - 1
                                   /\ retry_st.attempt = retry_st.calls - 1
        /\ retry_st.pc = "returned" => retry_st.error = "none"
        /\ retry_st.pc = "sleep" =>
              /\ IsInstanceOfAny(retry_st.error, Policy.retryable_exceptions)
              /\ retry_st.calls <= Policy.max_retries
        /\ retry_st.pc = "raised" =>
              \/ ~IsInstanceOfAny(retry_st.error, Policy.retryable_exceptions)
              \/ retry_st.calls = Policy.max_retries + 1
        /\ \A i \in DOMAIN retry_st.slept :
              IF Policy.jitter
              THEN /\ RatLe(RatMul(NominalDelay(i), Rat(1, 2)), retry_st.slept[i])
                   /\ RatLe(retry_st.slept[i], NominalDelay(i))
              ELSE retry_st.slept[i] = NominalDelay(i)

\* the last attempt failed with a retryable error after a capped sleep
C25_Witness ==
    /\ retry_in = "plain_backoff"
    /\ retry_st.pc = "raised"
    /\ retry_st.error = "NetworkError"
    /\ retry_st.calls = 4
    /\ retry_st.slept = <<Rat(1, 1), Rat(2, 1), Rat(3, 1)>>

\* ValueError and its subclasses: a malformed decision payload
ValidationErrors == {c \in ErrorClasses : "ValueError" \in Bases(c)}

\* C26 (validation errors are never retried): whatever wrapper is in use,
\* an operation that fails with a validation-class error is not called
\* again: the wrapper never sleeps for a retry after such an error.
C26_ValidationNeverRetried ==
    retry_st.pc = "sleep" => retry_st.error \notin ValidationErrors

----------------------------------------------------------------------------
(* chains/decision_chain.py: the decision of the LLM and its fallback      *)
(*   conviction, news_sentiment   percent (0.55 is 55)                     *)

\* a value of the parsed JSON object: absent, a number or a string
Missing == [type |-> "missing", value |-> 0]
Num(v) == [type |-> "number", value |-> v]
Text == [type |-> "str", value |-> 0]

valid_directions == {"LONG", "SHORT", "NO_POSITION"}

\* defaults of _validate_decision_result
default_conviction == 50
default_leverage == 3

\* what llm.invoke returned: text that json.loads rejects, JSON that is
\* not an object, or an object with these keys
OracleDirections == valid_directions \cup {"BUY", "missing"}
OracleConvictions == {Missing, Text, Num(-20), Num(54), Num(55), Num(80), Num(170)}
OracleLeverages == {Missing, Text, Num(0), Num(3), Num(50)}
OracleResponses ==
    [kind : {"object"}, direction : OracleDirections,
     conviction : OracleConvictions, recommended_leverage : OracleLeverages]
    \cup [kind : {"not_json", "not_object"}, direction : {"missing"},
          conviction : {Missing}, recommended_leverage : {Missing}]

\* chain_results: the cached signals of the other chains
Trends1h == {"bullish", "bearish", "sideways"}
Trends4h == {"strong_bullish", "bullish", "neutral", "bearish", "strong_bearish"}
NewsSentiments == {30, 40, 50, 60, 70}
ChainResults ==
    [trend_1h : Trends1h, trend_4h : Trends4h, news_sentiment : NewsSentiments]

Clamp(lo, hi, v) == IF v < lo THEN lo ELSE IF v > hi THEN hi ELSE v

\* _validate_decision_result raises: max(.., min(.., x)) of a string, or
\* item assignment on a value that is not a dict
ValidationRaises_Never(response) == FALSE
ValidationRaises(response) ==
    \/ response.kind = "not_object"
    \/ response.conviction.type = "str"
    \/ response.recommended_leverage.type = "str"

\* _validate_decision_result: defaults for missing keys, ranges clamped,
\* unknown direction and low conviction turned into NO_POSITION
ValidateDecisionResult(response) ==
    LET conviction == IF response.conviction.type = "missing"
                      THEN default_conviction
                      ELSE Clamp(0, 100, response.conviction.value)
        leverage == IF response.recommended_leverage.type = "missing"
                    THEN default_leverage
                    ELSE Clamp(1, 20, response.recommended_leverage.value)
        direction == IF response.direction \notin valid_directions
                     THEN "NO_POSITION" ELSE response.direction
    IN  [direction |-> IF conviction < min_conviction THEN "NO_POSITION"
                       ELSE direction,
         conviction |-> conviction,
         recommended_leverage |-> leverage,
         reasoning |-> "response"]

\* _fallback_decision
FallbackDecision(chain_results) ==
    LET long == /\ chain_results.trend_1h = "bullish"
                /\ chain_results.trend_4h \in {"bullish", "strong_bullish"}
                /\ chain_results.news_sentiment > 60
        short == /\ chain_results.trend_1h = "bearish"
                 /\ chain_results.trend_4h \in {"bearish", "strong_bearish"}
                 /\ chain_results.news_sentiment < 40
    IN  [direction |-> IF long THEN "LONG" ELSE IF short THEN "SHORT"
                       ELSE "NO_POSITION",
         conviction |-> IF long \/ short THEN 60 ELSE 30,
         recommended_leverage |-> 3,
         reasoning |-> "Fallback decision"]

\* _make_decision: json.loads, then the validation; any exception gives
\* the fallback decision
MakeDecision(response, chain_results) ==
    IF response.kind = "not_json" \/ ValidationRaises(response)
    THEN FallbackDecision(chain_results)
    ELSE ValidateDecisionResult(response)

NoDecision == [called |-> FALSE]

\* _make_decision(market_analysis) is called and the LLM answers oracle_in.response
MakeDecisionCall ==
    /\ ~oracle_out.called
    /\ oracle_out' = [called |-> TRUE,
                      result |-> MakeDecision(oracle_in.response,
                                              oracle_in.chain_results)]
    /\ UNCHANGED <<oracle_in, llm, sizing_vars, retry_vars, tick_vars, thread_vars>>
    /\ UNCHANGED <<sched_vars, gate_vars, bot_pc, bot_is_running, trading_vars,
                   cache_vars>>

----------------------------------------------------------------------------
(* Claims about the decision *)

\* the response is not a JSON object with usable values
Malformed(response) ==
    \/ response.kind # "object"
    \/ response.conviction.type = "str"
    \/ response.recommended_leverage.type = "str"

\* a value of the response lies outside its range
OutOfRange(response) ==
    /\ response.kind = "object"
    /\ \/ response.direction \notin valid_directions \cup {"missing"}
       \/ /\ response.conviction.type = "number"
          /\ response.conviction.value \notin 0..100
       \/ /\ response.recommended_leverage.type = "number"
          /\ response.recommended_leverage.value \notin 1..20

\* the direction the rule of the fallback gives for the cached signals
RuleDirection ==
    LET c == oracle_in.chain_results
    IN  IF c.trend_1h = "bullish" /\ c.trend_4h \in {"bullish", "strong_bullish"}
           /\ c.news_sentiment > 60
        THEN "LONG"
        ELSE IF c.trend_1h = "bearish" /\ c.trend_4h \in {"bearish", "strong_bearish"}
                /\ c.news_sentiment < 40
        THEN "SHORT"
        ELSE "NO_POSITION"

\* the decision returned is the rule-based one
IsRuleBased ==
    /\ oracle_out.result.reasoning = "Fallback decision"
    /\ oracle_out.result.direction = RuleDirection

----------------------------------------------------------------------------
(* Claims about position sizing *)

\* the sizing call has returned a rejection: success False and zero size
Rejected(out) ==
    /\ out.called
    /\ ~out.result.raised
    /\ ~out.result.success
    /\ out.result.position_fraction = Zero
    /\ out.result.investment_amount = Zero
    /\ out.result.btc_amount = Zero

C23_KellyFormulaAndCap ==
    (sizing_out.called /\ sizing_out.result.success) =>
        LET p == Rat(sizing_in.conviction, 100)
            b == RatDiv(Rat(sizing_in.tp_percent, 100), Rat(sizing_in.sl_percent, 100))
            kelly == RatSub(p, RatDiv(RatSub(Rat(1, 1), p), b))
        IN  /\ sizing_in.use_kelly =>
                  /\ sizing_out.result.raw_kelly = kelly
                  /\ sizing_out.result.adjusted_kelly = RatMul(kelly, kelly_fraction)
            /\ RatLe(sizing_out.result.position_fraction, max_position_size)

\* the sizing before the risk check, and the loss the day can still take
Unchecked ==
    CalculatePositionSize(sizing_in.conviction, sizing_in.sl_percent,
                          sizing_in.tp_percent, sizing_in.available_balance,
                          sizing_in.current_price, sizing_in.max_leverage)
RemainingDailyLimit ==
    RatAdd(RatMul(Rat(sizing_in.available_balance, 1), daily_loss_limit),
           Rat(sizing_in.daily_pnl, 1))

\* investment * sl_fraction * leverage of a sizing result
MaxLossOf(result) ==
    RatMul(RatMul(result.investment_amount, Rat(sizing_in.sl_percent, 100)),
           Rat(result.leverage, 1))

----------------------------------------------------------------------------
(* ChainDB: the expiring result cache (utils/db.py)                        *)
(* Time is counted in half hours.  Rows hold the ISO texts the code stores *)
(* and compares; created_at / expires_at are the instants those texts      *)
(* were made from, kept beside them to state the claims.                   *)

\* rows the model lets the chains insert
MaxPuts == 2

\* Optional[...] = None
None == -1

\* `if ttl_seconds:` / `if max_age_seconds:`
Truthy(x) == x # None /\ x # 0

\* save_news_summary: timedelta(hours=4)
NewsTtl == 8

\* save_performance_summary: timedelta(hours=2)
PerformanceTtl == 4

\* save_trend_summary: {"1h": 1.5, "4h": 6}.get(timeframe, 2) hours
TrendTtl(timeframe) ==
    IF timeframe = "1h" THEN 3 ELSE IF timeframe = "4h" THEN 12 ELSE 4

tables_with_expiry ==
    {"chain_results", "news_summary", "trend_summary", "performance_summary"}

\* chain names asked for, and those that have saved a result
ChainNames == {"news", "market"}
SavingChains == {"news"}
Timeframes == {"1h", "15m"}
TtlInputs == {None, 0, 1}
MaxAgeInputs == {None, 0, 1}

\* datetime.now() of the first call; later calls are made up to DbEnd
DbStart == CHOOSE a \in MaxAgeInputs : \A b \in MaxAgeInputs : b <= a
DbEnd == DbStart + PerformanceTtl

\* characters of an ISO text
Digit(d) == 48 + d
Dot == 46

\* a zero-padded two-digit field
Pad2(n) == <<Digit(n \div 10), Digit(n % 10)>>

\* datetime.isoformat(): the fraction is left out when it is zero
IsoFormat(t) ==
    Pad2(t \div 2) \o (IF t % 2 = 0 THEN <<>> ELSE <<Dot, Digit(5)>>)

\* SQLite NULL in a TEXT column
NullText == <<>>

\* SQLite's comparison of two TEXT values: a < b
TextLess(a, b) ==
    LET n == IF Len(a) < Len(b) THEN Len(a) ELSE Len(b)
    IN  \/ \E i \in 1..n : /\ a[i] < b[i]
                           /\ \A j \in 1..(i - 1) : a[j] = b[j]
        \/ /\ Len(a) < Len(b)
           /\ \A j \in 1..n : a[j] = b[j]

\* WHERE ... expiry_time > ?   (NULL compares as unknown: the row is left out)
Unexpired_Inclusive(row, now_text) ==
    row.expiry_time # NullText /\ ~TextLess(row.expiry_time, now_text)

\* WHERE ... expiry_time > ?   (NULL compares as unknown: the row is left out)
Unexpired(row, now_text) ==
    row.expiry_time # NullText /\ TextLess(now_text, row.expiry_time)

\* WHERE expiry_time <= ?
Expired_Strict(row, now_text) ==
    row.expiry_time # NullText /\ TextLess(row.expiry_time, now_text)

\* WHERE expiry_time <= ?
Expired(row, now_text) ==
    row.expiry_time # NullText /\ ~TextLess(now_text, row.expiry_time)

NoRow == [id |-> 0, kind |-> "", timestamp |-> NullText, expiry_time |-> NullText,
          created_at |-> None, expires_at |-> None]

NoCall == [op |-> "none", table |-> "", kind |-> "", max_age |-> None,
           row |-> NoRow, count |-> 0, before |-> [t \in tables_with_expiry |-> {}]]

\* INSERT INTO <table> (..., timestamp, expiry_time) VALUES (...)
Insert(table, kind, ttl) ==
    /\ db_rowid < MaxPuts
    /\ db_rowid' = db_rowid + 1
    /\ tables' = [tables EXCEPT ![table] = @ \cup
          {[id |-> db_rowid + 1, kind |-> kind,
            timestamp |-> IsoFormat(db_now),
            expiry_time |-> IF ttl = None THEN NullText ELSE IsoFormat(db_now + ttl),
            created_at |-> db_now,
            expires_at |-> IF ttl = None THEN None ELSE db_now + ttl]}]
    /\ db_ret' = [NoCall EXCEPT !.op = "put", !.table = table]
    /\ UNCHANGED db_now

\* save_chain_result(chain_name, result_data, ttl_seconds)
SaveChainResult(chain_name, ttl) ==
    /\ Insert("chain_results", chain_name, IF Truthy(ttl) THEN ttl ELSE None)
    /\ UNCHANGED <<sched_vars, bot_vars, gate_vars, trading_vars>>

SaveNewsSummary ==
    /\ Insert("news_summary", "", NewsTtl)
    /\ UNCHANGED <<sched_vars, bot_vars, gate_vars, trading_vars>>

SaveTrendSummary(timeframe) ==
    /\ Insert("trend_summary", timeframe, TrendTtl(timeframe))
    /\ UNCHANGED <<sched_vars, bot_vars, gate_vars, trading_vars>>

SavePerformanceSummary ==
    /\ Insert("performance_summary", "", PerformanceTtl)
    /\ UNCHANGED <<sched_vars, bot_vars, gate_vars, trading_vars>>

\* ORDER BY timestamp DESC LIMIT 1 over the rows a WHERE clause selects:
\* the rows the query may return (rows of equal timestamp in either order)
LatestOf(rows) ==
    {r \in rows : \A q \in rows : ~TextLess(r.timestamp, q.timestamp)}

\* a SELECT ... LIMIT 1 returns `row`, or no row when none is selected
Fetch(op, table, kind, max_age, selected, row) ==
    /\ IF selected = {} THEN row = NoRow ELSE row \in LatestOf(selected)
    /\ db_ret' = [NoCall EXCEPT !.op = op, !.table = table, !.kind = kind,
                                !.max_age = max_age, !.row = row,
                                !.before = tables]
    /\ UNCHANGED <<tables, db_now, db_rowid>>

\* get_latest_chain_result(chain_name, max_age_seconds)
GetLatestChainResult(chain_name, max_age, row) ==
    /\ LET now_text == IsoFormat(db_now)
           selected ==
               {r \in tables["chain_results"] :
                   /\ r.kind = chain_name
                   /\ (r.expiry_time = NullText \/ Unexpired(r, now_text))
                   /\ Truthy(max_age) =>
                          TextLess(IsoFormat(db_now - max_age), r.timestamp)}
       IN  Fetch("get_latest_chain_result", "chain_results", chain_name,
                 max_age, selected, row)
    /\ UNCHANGED <<sched_vars, bot_vars, gate_vars, trading_vars>>

\* get_latest_news_summary()
GetLatestNewsSummary(row) ==
    /\ LET selected == {r \in tables["news_summary"] :
                            Unexpired(r, IsoFormat(db_now))}
       IN  Fetch("get_latest_news_summary", "news_summary", "", None,
                 selected, row)
    /\ UNCHANGED <<sched_vars, bot_vars, gate_vars, trading_vars>>

\* get_latest_trend_summary(timeframe)
GetLatestTrendSummary(timeframe, row) ==
    /\ LET selected == {r \in tables["trend_summary"] :
                            r.kind = timeframe /\ Unexpired(r, IsoFormat(db_now))}
       IN  Fetch("get_latest_trend_summary", "trend_summary", timeframe, None,
                 selected, row)
    /\ UNCHANGED <<sched_vars, bot_vars, gate_vars, trading_vars>>

\* get_latest_performance_summary()
GetLatestPerformanceSummary(row) ==
    /\ LET selected == {r \in tables["performance_summary"] :
                            Unexpired(r, IsoFormat(db_now))}
       IN  Fetch("get_latest_performance_summary", "performance_summary", "",
                 None, selected, row)
    /\ UNCHANGED <<sched_vars, bot_vars, gate_vars, trading_vars>>

AllRows(tbls) == UNION {tbls[t] : t \in tables_with_expiry}

\* cleanup_expired_cache(): DELETE FROM <table> WHERE expiry_time <= ? for each
\* table; the rowcounts are added up
CleanupExpiredCache ==
    /\ LET now_text == IsoFormat(db_now)
           deleted == [t \in tables_with_expiry |->
                          {r \in tables[t] : Expired(r, now_text)}]
       IN  /\ tables' = [t \in tables_with_expiry |-> tables[t] \ deleted[t]]
           /\ db_ret' = [NoCall EXCEPT
                            !.op = "cleanup_expired_cache",
                            !.count = SumOver([t \in tables_with_expiry |->
                                                  Cardinality(deleted[t])],
                                              tables_with_expiry),
                            !.before = tables]
    /\ UNCHANGED <<db_now, db_rowid>>
    /\ UNCHANGED <<sched_vars, bot_vars, gate_vars, trading_vars>>

\* half an hour passes
DbClockTick ==
    /\ db_now < DbEnd
    /\ db_now' = db_now + 1
    /\ db_ret' = NoCall
    /\ UNCHANGED <<tables, db_rowid>>
    /\ UNCHANGED <<sched_vars, bot_vars, gate_vars, trading_vars>>

----------------------------------------------------------------------------
(* Claims about the cache *)

GetOps == {"get_latest_chain_result", "get_latest_news_summary",
           "get_latest_trend_summary", "get_latest_performance_summary"}

\* the row's expiry instant has been reached
ExpiredAt(row, now) == row.expires_at # None /\ row.expires_at <= now

\* C8: after any sequence of saves, sweeps and clock advances, a get_latest
\* call (get_latest_chain_result and the news / trend / performance
\* variants) never returns a row whose expires_at <= now.
C8_NeverReturnsExpired ==
    (db_ret.op \in GetOps /\ db_ret.row # NoRow) => ~ExpiredAt(db_ret.row, db_now)

\* a get_latest call has skipped an expired row of the kind asked for that
\* is still stored
C8_Witness ==
    /\ db_ret.op \in GetOps
    /\ \E r \in tables[db_ret.table] :
          r.kind = db_ret.kind /\ ExpiredAt(r, db_now) /\ r # db_ret.row

\* C9: right after cleanup_expired_cache() completes, no row with
\* expires_at <= the sweep's now remains in any cache table, no unexpired
\* row has been removed, and the returned count is the number of rows removed.
C9_SweepRemovesExactlyExpired ==
    db_ret.op = "cleanup_expired_cache" =>
        /\ \A r \in AllRows(tables) : ~ExpiredAt(r, db_now)
        /\ \A t \in tables_with_expiry :
              /\ tables[t] \subseteq db_ret.before[t]
              /\ \A r \in db_ret.before[t] \ tables[t] : ExpiredAt(r, db_now)
        /\ db_ret.count =
              Cardinality(AllRows(db_ret.before)) - Cardinality(AllRows(tables))

\* a sweep has removed a row and has left another one
C9_Witness ==
    /\ db_ret.op = "cleanup_expired_cache"
    /\ db_ret.count >= 1
    /\ AllRows(tables) # {}

\* C10: get_latest_chain_result(kind, max_age) returns the most recently
\* created row of that kind among the rows with expires_at > now and, when
\* max_age is given, created later than now - max_age; it returns none
\* exactly when there is no such row, never a row of another kind, and
\* leaves the stored rows unchanged.
C10_LatestUnexpiredOfKind ==
    db_ret.op = "get_latest_chain_result" =>
        LET current == {r \in tables["chain_results"] :
                           /\ r.kind = db_ret.kind
                           /\ ~ExpiredAt(r, db_now)
                           /\ db_ret.max_age # None =>
                                  r.created_at > db_now - db_ret.max_age}
        IN  /\ db_ret.row = NoRow <=> current = {}
            /\ db_ret.row # NoRow =>
                  /\ db_ret.row \in current
                  /\ \A r \in current : r.created_at <= db_ret.row.created_at
            /\ tables = db_ret.before

InitCache ==
    /\ tables = [t \in tables_with_expiry |-> {}]
    /\ db_now = DbStart
    /\ db_rowid = 0
    /\ db_ret = NoCall

----------------------------------------------------------------------------
(* ChainDB.get_connection (utils/db.py): one connection per operation      *)

\* threads that call the cache through get_chain_db(): the executions of
\* the four chains in the scheduler's thread pool and the decision chain
\* reading the cached results in the main thread
DbCallers == chain_functions \cup {"decision"}

\* the connections that are open
OpenHandles == {t \in DbCallers : db_conns[t] # "none"}

\* conn = sqlite3.connect(self.db_file); the with-body starts
Connect(t) ==
    /\ db_conns[t] = "none"
    /\ db_conns' = [db_conns EXCEPT ![t] = "open"]
    /\ UNCHANGED <<stats_lock, stats_pc, job_times, tick_vars, decision_vars>>
    /\ UNCHANGED <<sched_vars, gate_vars, bot_pc, bot_is_running, trading_vars,
                   cache_vars>>

\* the with-body raises: conn.rollback(), the exception goes on to finally
BodyRaises(t) ==
    /\ db_conns[t] = "open"
    /\ db_conns' = [db_conns EXCEPT ![t] = "rolled_back"]
    /\ UNCHANGED <<stats_lock, stats_pc, job_times, tick_vars, decision_vars>>
    /\ UNCHANGED <<sched_vars, gate_vars, bot_pc, bot_is_running, trading_vars,
                   cache_vars>>

\* finally: conn.close(), after the body returned or after the rollback
CloseConnection(t) ==
    /\ db_conns[t] \in {"open", "rolled_back"}
    /\ db_conns' = [db_conns EXCEPT ![t] = "none"]
    /\ UNCHANGED <<stats_lock, stats_pc, job_times, tick_vars, decision_vars>>
    /\ UNCHANGED <<sched_vars, gate_vars, bot_pc, bot_is_running, trading_vars,
                   cache_vars>>

----------------------------------------------------------------------------
(* Claims about the storage handles *)

\* a pool that the callers can exhaust: fewer handles than callers
PoolBound == Cardinality(DbCallers) - 1

\* C28 (bounded pool of storage handles): however many callers are inside
\* a cache operation, the number of open handles stays within the pool
\* bound; a caller arriving when the pool is exhausted waits and opens no
\* new handle.
C28_HandlesWithinPool == Cardinality(OpenHandles) <= PoolBound

----------------------------------------------------------------------------
(* ChainScheduler.lock: the locked sections of _run_chain_safe and         *)
(* _reset_job_stats, one step per acquisition and per locked block         *)

\* threading.Lock(), not held
Free == "free"

\* two pool threads running _run_chain_safe, the thread of the stats_reset
\* cron job and the thread of the hourly status_logging job
StatsWorkers == {"worker_1", "worker_2"}
StatsThreads == StatsWorkers \cup {"cron", "logger"}

\* chains the workers run
StatsChains == {"news", "performance"}

\* "last_run": None, "last_duration": 0
NoTimes == [last_run |-> None, last_duration |-> 0]

\* readings of datetime.now() and of time.time() - start_time, in seconds
Instants == {1}
Durations == {1}

NoFrame == [pc |-> "idle", chain |-> "", outcome |-> ""]

\* `with self.lock:` goes on only when no thread holds the lock
CanAcquire_Always(t) == TRUE
CanAcquire(t) == stats_lock = Free

\* _reset_job_stats: update({"attempts": 0, "successes": 0, "failures": 0})
\* on every entry; the other keys stay
ResetTimes(times) == times

\* a worker enters _run_chain_safe(chain)
RunEnter(t, chain) ==
    /\ stats_pc[t].pc = "idle"
    /\ job_stats[chain].attempts < MaxRuns
    /\ stats_pc' = [stats_pc EXCEPT ![t] = [pc |-> "begin_wait", chain |-> chain,
                                            outcome |-> ""]]
    /\ UNCHANGED <<stats_lock, job_times, db_conns, tick_vars, decision_vars>>
    /\ UNCHANGED <<sched_vars, gate_vars, bot_pc, bot_is_running, trading_vars,
                   cache_vars>>

\* the cron thread enters _reset_job_stats
ResetEnter ==
    /\ stats_pc["cron"].pc = "idle"
    /\ stats_pc' = [stats_pc EXCEPT !["cron"].pc = "reset_wait"]
    /\ UNCHANGED <<stats_lock, job_times, db_conns, tick_vars, decision_vars>>
    /\ UNCHANGED <<sched_vars, gate_vars, bot_pc, bot_is_running, trading_vars,
                   cache_vars>>

\* `with self.lock:` entered (any of the four with statements)
AcquireLock(t) ==
    /\ stats_pc[t].pc \in {"begin_wait", "end_wait", "reset_wait", "status_wait"}
    /\ CanAcquire(t)
    /\ stats_lock' = t
    /\ stats_pc' = [stats_pc EXCEPT ![t].pc =
                       CASE @ = "begin_wait" -> "begin_locked"
                         [] @ = "end_wait" -> "end_locked"
                         [] @ = "reset_wait" -> "reset_locked"
                         [] @ = "status_wait" -> "status_locked"]
    /\ UNCHANGED <<job_times, db_conns, tick_vars, decision_vars>>
    /\ UNCHANGED <<sched_vars, gate_vars, bot_pc, bot_is_running, trading_vars,
                   cache_vars>>

\* first locked block: attempts += 1, last_run = now; the lock is released
LockedBegin(t, now) ==
    /\ stats_pc[t].pc = "begin_locked"
    /\ job_stats' = StatsBegin(job_stats, stats_pc[t].chain)
    /\ job_times' = [job_times EXCEPT ![stats_pc[t].chain].last_run = now]
    /\ stats_lock' = Free
    /\ stats_pc' = [stats_pc EXCEPT ![t].pc = "body"]
    /\ UNCHANGED <<db_conns, tick_vars, decision_vars>>
    /\ UNCHANGED <<is_running, initialization_complete, initialization_results,
                   aps_state, aps_jobs, executions, epoch, submitted, submit_result,
                   start_pc, init_idx, init_attempt, failed_chains>>
    /\ UNCHANGED <<gate_vars, bot_pc, bot_is_running, trading_vars, cache_vars>>

\* the chain function returns a success or a failure that is not transient
\* (no retry job is scheduled for it)
ChainBody(t, outcome) ==
    /\ stats_pc[t].pc = "body"
    /\ stats_pc' = [stats_pc EXCEPT ![t].pc = "end_wait", ![t].outcome = outcome]
    /\ UNCHANGED <<stats_lock, job_times, db_conns, tick_vars, decision_vars>>
    /\ UNCHANGED <<sched_vars, gate_vars, bot_pc, bot_is_running, trading_vars,
                   cache_vars>>

\* second locked block (success path or except path): successes += 1 or
\* failures += 1, last_duration = duration; the lock is released and
\* _run_chain_safe returns
LockedEnd(t, duration) ==
    /\ stats_pc[t].pc = "end_locked"
    /\ job_stats' = StatsEnd(job_stats, stats_pc[t].chain, stats_pc[t].outcome)
    /\ job_times' = [job_times EXCEPT ![stats_pc[t].chain].last_duration = duration]
    /\ stats_lock' = Free
    /\ stats_pc' = [stats_pc EXCEPT ![t] = NoFrame]
    /\ UNCHANGED <<db_conns, tick_vars, decision_vars>>
    /\ UNCHANGED <<is_running, initialization_complete, initialization_results,
                   aps_state, aps_jobs, executions, epoch, submitted, submit_result,
                   start_pc, init_idx, init_attempt, failed_chains>>
    /\ UNCHANGED <<gate_vars, bot_pc, bot_is_running, trading_vars, cache_vars>>

\* the locked block of _reset_job_stats; the lock is released
LockedReset ==
    /\ stats_pc["cron"].pc = "reset_locked"
    /\ job_stats' = [c \in DOMAIN job_stats |-> NoStats]
    /\ job_times' = ResetTimes(job_times)
    /\ stats_lock' = Free
    /\ stats_pc' = [stats_pc EXCEPT !["cron"].pc = "reset_logged"]
    /\ UNCHANGED <<db_conns, tick_vars, decision_vars>>
    /\ UNCHANGED <<is_running, initialization_complete, initialization_results,
                   aps_state, aps_jobs, executions, epoch, submitted, submit_result,
                   start_pc, init_idx, init_attempt, failed_chains>>
    /\ UNCHANGED <<gate_vars, bot_pc, bot_is_running, trading_vars, cache_vars>>

\* log_chain(.. "Job statistics reset"); _reset_job_stats returns
ResetReturn ==
    /\ stats_pc["cron"].pc = "reset_logged"
    /\ stats_pc' = [stats_pc EXCEPT !["cron"].pc = "idle"]
    /\ UNCHANGED <<stats_lock, job_times, db_conns, tick_vars, decision_vars>>
    /\ UNCHANGED <<sched_vars, gate_vars, bot_pc, bot_is_running, trading_vars,
                   cache_vars>>

\* _log_scheduler_status: log_chain(...) is the last statement inside
\* `with self.lock:`
LogUnderLock == TRUE

\* the logger thread enters _log_scheduler_status
StatusEnter ==
    /\ stats_pc["logger"].pc = "idle"
    /\ stats_pc' = [stats_pc EXCEPT !["logger"].pc = "status_wait"]
    /\ UNCHANGED <<stats_lock, job_times, db_conns, tick_vars, decision_vars>>
    /\ UNCHANGED <<sched_vars, gate_vars, bot_pc, bot_is_running, trading_vars,
                   cache_vars>>

\* inside the lock: get_jobs() twice, the success rates are read from
\* job_stats, and log_chain is called
StatusLog ==
    /\ stats_pc["logger"].pc = "status_locked"
    /\ stats_pc' = [stats_pc EXCEPT !["logger"].pc = "status_logging"]
    /\ stats_lock' = IF LogUnderLock THEN stats_lock ELSE Free
    /\ UNCHANGED <<job_times, db_conns, tick_vars, decision_vars>>
    /\ UNCHANGED <<sched_vars, gate_vars, bot_pc, bot_is_running, trading_vars,
                   cache_vars>>

\* log_chain has written its row of chain_logs; the with block ends and
\* _log_scheduler_status returns
StatusReturn ==
    /\ stats_pc["logger"].pc = "status_logging"
    /\ stats_pc' = [stats_pc EXCEPT !["logger"].pc = "idle"]
    /\ stats_lock' = Free
    /\ UNCHANGED <<job_times, db_conns, tick_vars, decision_vars>>
    /\ UNCHANGED <<sched_vars, gate_vars, bot_pc, bot_is_running, trading_vars,
                   cache_vars>>

\* positions of a thread inside a chain function or inside log_chain
OutsideCalls == {"body", "reset_logged", "status_logging"}

\* C33: the scheduler's lock is held for one read or update of JobStats
\* only: no thread holds it while its chain function runs or while its
\* log_chain call writes the log, so a thread waiting for the lock never
\* waits for a chain or for a log write.
C33_NoLockAcrossCalls ==
    \A t \in StatsThreads : stats_pc[t].pc \in OutsideCalls => stats_lock # t

\* the status log is being written with the lock held while a worker waits
\* for the lock to count its attempt
C33_Counterexample ==
    /\ stats_pc["logger"].pc = "status_logging"
    /\ stats_lock = "logger"
    /\ \E t \in StatsWorkers : stats_pc[t].pc = "begin_wait"

----------------------------------------------------------------------------
(* Claims about the job statistics under the lock *)

\* the thread that takes the step
Stepping(t) ==
    /\ stats_pc'[t] # stats_pc[t]
    /\ \A u \in StatsThreads \ {t} : stats_pc'[u] = stats_pc[u]

\* one of the counters of the chain goes down
CounterDrops(c) ==
    \/ job_stats'[c].attempts < job_stats[c].attempts
    \/ job_stats'[c].successes < job_stats[c].successes
    \/ job_stats'[c].failures < job_stats[c].failures

\* C29 (JobStats change only under the lock; reset only by _reset_job_stats):
\* a step that changes attempts, successes, failures, last_run or
\* last_duration of any entry is taken by a thread that holds the
\* scheduler's lock, and no other thread holds it; a counter goes down only
\* in the locked block of _reset_job_stats, which sets the three counters of
\* every entry to zero and leaves last_run and last_duration as they were.
C29_StatsUnderLockResetOnly ==
    [][/\ (job_stats' # job_stats \/ job_times' # job_times) =>
              \E t \in StatsThreads : Stepping(t) /\ stats_lock = t
       /\ \A c \in DOMAIN job_stats :
              CounterDrops(c) =>
                  /\ stats_pc["cron"].pc = "reset_locked"
                  /\ Stepping("cron")
                  /\ \A d \in DOMAIN job_stats : job_stats'[d] = NoStats
                  /\ job_times' = job_times]_vars

\* the reset has just run between the two locked blocks of a worker: the
\* counters are zero, the last_run the worker wrote is still there
C29_Witness ==
    /\ stats_pc["cron"].pc = "reset_logged"
    /\ \E t \in StatsWorkers : /\ stats_pc[t].pc = "end_wait"
                               /\ job_times[stats_pc[t].chain].last_run \in Instants
    /\ \A c \in DOMAIN job_stats : job_stats[c] = NoStats
    /\ \E t \in StatsWorkers : stats_pc[t].pc = "begin_wait"

----------------------------------------------------------------------------
(* Claims about the refresh after a closure *)

\* the step writes status CLOSED into a trade record that was OPEN
ClosureRecorded ==
    \E i \in DOMAIN trades : /\ trades[i].status = "OPEN"
                             /\ trades'[i].status = "CLOSED"

\* the date job trigger_chain("performance") adds at this second
RefreshJob == [chain |-> "performance", kind |-> "manual", sec |-> epoch]

\* forced performance runs waiting in the job store, and those running
PendingRefresh == {j \in aps_jobs : j.chain = "performance" /\ j.kind = "manual"}

RefreshRuns ==
    \E e \in DOMAIN executions : /\ e.job.chain = "performance"
                                 /\ e.job.kind = "manual"
                                 /\ e.phase = "body"

----------------------------------------------------------------------------
(* scheduler.py: the retries that follow one failed periodic run *)

\* bound of the model: the retry runs of one chain that are followed
MaxRetryRuns == 5

\* _schedule_retry that adds nothing
ScheduleRetryAfter_Never(jobs, chain) == jobs

\* the except branch of _run_chain_safe: a network/timeout failure schedules
\* a retry whatever job started the run (no attempt is counted anywhere)
ScheduleRetryAfter(jobs, chain) == ScheduleRetry(jobs, chain)

\* the interval trigger of <chain>_chain fires and _run_chain_safe runs to
\* its return with no other run in between; only the first periodic run of
\* a chain is followed
PeriodicRun(chain, outcome) ==
    /\ UNCHANGED <<trading_vars, cache_vars, startup_frame>>
    /\ aps_state = "running"
    /\ PeriodicJob(chain) \in aps_jobs
    /\ IntervalDue(chain)
    /\ chain \notin interval_fired
    /\ job_stats[chain].attempts = 1
    /\ interval_fired' = interval_fired \cup {chain}
    /\ job_stats' = StatsEnd(StatsBegin(job_stats, chain), chain, outcome)
    /\ IF ~RunChainSafeSuccess(outcome) /\ initialization_complete /\ IsTransient(outcome)
       THEN aps_jobs' = ScheduleRetryAfter(aps_jobs, chain)
       ELSE UNCHANGED aps_jobs
    /\ sched_ret' = RunChainSafeReturn(chain, outcome)
    /\ UNCHANGED <<is_running, initialization_complete, initialization_results,
                   aps_state, executions, epoch, submitted, submit_result,
                   start_pc, init_idx, init_attempt, failed_chains, bot_vars>>

\* a retry job reaches its run_date, leaves the job store, and
\* _run_chain_safe(chain, True) runs to its return
RetryRun(job, outcome) ==
    /\ UNCHANGED <<trading_vars, cache_vars, startup_frame, interval_fired>>
    /\ aps_state = "running"
    /\ job \in DateJobs
    /\ job.kind = "retry"
    /\ epoch >= job.sec + DelayOf(job.kind)
    /\ job_stats[job.chain].failures <= MaxRetryRuns
    /\ job_stats' = StatsEnd(StatsBegin(job_stats, job.chain), job.chain, outcome)
    /\ IF ~RunChainSafeSuccess(outcome) /\ initialization_complete /\ IsTransient(outcome)
       THEN aps_jobs' = ScheduleRetryAfter(aps_jobs \ {job}, job.chain)
       ELSE aps_jobs' = aps_jobs \ {job}
    /\ sched_ret' = RunChainSafeReturn(job.chain, outcome)
    /\ UNCHANGED <<is_running, initialization_complete, initialization_results,
                   aps_state, executions, epoch, submitted, submit_result,
                   start_pc, init_idx, init_attempt, failed_chains, bot_vars>>

RetryPending(chain) == \E j \in aps_jobs : j.kind = "retry" /\ j.chain = chain

\* C32: the delayed retry runs caused by one failed periodic run of a chain
\* that always fails with a network error stop after a bounded number of
\* attempts (the number of tries the scheduler uses elsewhere, max_retries):
\* once that many retry runs have failed no further retry is pending.
C32_RetriesBounded ==
    \A c \in chain_functions :
        (job_stats[c].successes = 1 /\ job_stats[c].failures >= 1 + max_retries)
            => ~RetryPending(c)

\* the retry run after max_retries failed retries has itself failed and left
\* one more retry behind
C32_Counterexample ==
    \E c \in chain_functions :
        /\ job_stats[c].successes = 1
        /\ job_stats[c].failures = 2 + max_retries
        /\ job_stats[c].attempts = 3 + max_retries
        /\ RetryPending(c)

----------------------------------------------------------------------------
(* Claims about the lot size and the leverage of a sizing result *)

\* the exchange's minimum lot, 0.001 BTC
MinLot == Rat(1, 1000)

IsLotMultiple(amount) == RatDiv(amount, MinLot).den = 1

\* C34: a successful sizing result reports an instrument amount that is a
\* whole number of minimum lots (0.001), an investment_amount equal to that
\* amount times the price and a position_fraction equal to that investment
\* over the balance, whether or not the risk check scaled the position down.
C34_LotRounded ==
    (sizing_out.called /\ sizing_in.use_kelly /\ sizing_out.result.success) =>
        LET result == sizing_out.result
        IN  /\ IsLotMultiple(result.btc_amount)
            /\ result.investment_amount =
                   RatMul(result.btc_amount, Rat(sizing_in.current_price, 1))
            /\ result.position_fraction =
                   RatDiv(result.investment_amount, Rat(sizing_in.available_balance, 1))

\* a sizing the risk check scaled down to an amount between two lots
C34_Counterexample ==
    /\ sizing_out.called
    /\ sizing_in.use_kelly
    /\ sizing_out.result.success
    /\ IsLotMultiple(Unchecked.btc_amount)
    /\ RatLt(sizing_out.result.btc_amount, Unchecked.btc_amount)
    /\ ~IsLotMultiple(sizing_out.result.btc_amount)

\* the smallest of three integers
Min3(a, b, c) == CHOOSE m \in {a, b, c} : \A n \in {a, b, c} : m <= n

\* the max_leverage the sizer works with: the argument, or the configured
\* one when the argument is None or 0
MaxLev == IF sizing_in.max_leverage = 0 THEN config_max_leverage ELSE sizing_in.max_leverage

\* C35: the leverage of a Kelly sizing is
\* min(floor(conviction * 20), floor(0.1 / sl), max_leverage), raised to 1
\* when that is below 1 and lowered to 5 when sl is 5% or more; it lies
\* between 1 and max_leverage, the risk check leaves it as it is, and
\* conviction 0.65 with sl 0.03 gives 3 when max_leverage allows it.
C35_LeverageFormula ==
    (sizing_out.called /\ sizing_in.use_kelly /\ Unchecked.success) =>
        LET by_conviction == (sizing_in.conviction * 20) \div 100
            by_sl == 10 \div sizing_in.sl_percent
            least == Min3(by_conviction, by_sl, MaxLev)
            floored == IF least < 1 THEN 1 ELSE least
            expected == IF sizing_in.sl_percent >= 5 /\ floored > 5 THEN 5 ELSE floored
        IN  /\ Unchecked.leverage = expected
            /\ 1 <= Unchecked.leverage
            /\ Unchecked.leverage <= MaxLev
            /\ sizing_out.result.success => sizing_out.result.leverage = expected
            /\ (sizing_in.conviction = 65 /\ sizing_in.sl_percent = 3 /\ MaxLev >= 3)
                   => Unchecked.leverage = 3

\* the example of the claim, with a max_leverage that would allow 13
C35_Witness ==
    /\ sizing_out.called
    /\ sizing_in.use_kelly
    /\ sizing_in.conviction = 65
    /\ sizing_in.sl_percent = 3
    /\ sizing_in.max_leverage = 20
    /\ sizing_out.result.success
    /\ sizing_out.result.leverage = 3

(* Claims about the consistency of the job statistics *)

\* a thread is between the two locked blocks of _run_chain_safe(chain): the
\* attempt is counted, its success or failure is not
InFlight(chain) ==
    \E t \in StatsWorkers :
        /\ stats_pc[t].chain = chain
        /\ stats_pc[t].pc \in {"body", "end_wait", "end_locked"}

\* success_rate of get_chain_status, in percent, rounded down
SuccessRate(stats) ==
    IF stats.attempts > 0 THEN (stats.successes * 100) \div stats.attempts ELSE 0

\* C36: for every chain successes + failures <= attempts, with equality when
\* no execution of the chain is in flight, also when _reset_job_stats has run
\* while an execution was in flight; the success rate that get_chain_status
\* reports is at most 100%.
C36_StatsConsistent ==
    \A c \in DOMAIN job_stats :
        /\ job_stats[c].successes + job_stats[c].failures <= job_stats[c].attempts
        /\ ~InFlight(c) =>
               job_stats[c].successes + job_stats[c].failures = job_stats[c].attempts
        /\ SuccessRate(job_stats[c]) <= 100

\* every run has returned and a chain has more successes than attempts
C36_Counterexample ==
    /\ \A t \in StatsThreads : stats_pc[t].pc = "idle"
    /\ \E c \in DOMAIN job_stats :
           /\ job_stats[c].successes > job_stats[c].attempts
           /\ SuccessRate(job_stats[c]) > 100

(* Claims about the trade records of the bot loop *)

OpenRecords(records) == {i \in DOMAIN records : records[i].status = "OPEN"}

\* C37: at most one trade record has status OPEN, and a step that writes a
\* new trade record leaves every earlier record CLOSED.
C37_SingleOpenRecord ==
    /\ [](Cardinality(OpenRecords(trades)) <= 1)
    /\ [][Len(trades') > Len(trades)
             => \A i \in DOMAIN trades : trades'[i].status = "CLOSED"]_vars

\* two OPEN records, the first left by a reconciliation whose update failed
C37_Counterexample ==
    /\ Cardinality(OpenRecords(trades)) = 2
    /\ iteration.update_failed

(* Claims about the monitoring of an open simulated position *)

\* the price is at or beyond the stop-loss or the take-profit level of the
\* open trade record
AtOrBeyondLevel(price) ==
    LET latest == LatestOpenTrade(trades)
        side == current_position.side
    IN  /\ latest # 0
        /\ IF side = "long"
           THEN \/ price * 100 <= trades[latest].sl_price
                \/ price * 100 >= trades[latest].tp_price
           ELSE \/ price * 100 >= trades[latest].sl_price
                \/ price * 100 <= trades[latest].tp_price

\* one pass of the monitoring loop in simulation mode: while the position is
\* open the fetched price is at or beyond one of its levels; no entry
\* decision is taken and the record writes succeed
MonitorTick(price) ==
    /\ trading_mode = "TEST"
    /\ PositionIsOpen => AtOrBeyondLevel(price)
    /\ MainLoopIteration(price, TRUE, FALSE, "NO_POSITION", <<0, 0>>, "none", TRUE, TRUE)

\* the position is Flat, its record is CLOSED with the realized profit or
\* loss, and the balance has moved by exactly that amount
ClosedOnce ==
    /\ current_position = NoPosition
    /\ trades[1].status = "CLOSED"
    /\ current_balance = ToBalance(INITIAL_TEST_BALANCE) + trades[1].profit_loss

\* C38: in simulation mode an open position whose price stays at or beyond
\* its stop-loss or take-profit level is eventually closed by the monitoring
\* loop, under weak fairness of the loop: the position becomes Flat, its
\* record CLOSED with the realized profit or loss of that close, and the
\* balance changes once, by that amount; until then the balance is untouched.
C38_TriggeredPositionCloses ==
    /\ [](PositionIsOpen => current_balance = ToBalance(INITIAL_TEST_BALANCE))
    /\ (PositionIsOpen ~> ClosedOnce)

(* chains/decision_chain.py: DecisionChain.run                             *)
(*   final conviction   in 1/10000 (0.55 = 5500)                           *)

\* get_best_direction()
BestDirections == {"BALANCED", "LONG", "SHORT"}

\* a final validation that never sees a conflict
IsConflicted_Never(trend_1h, trend_4h) == FALSE

\* is_conflicted of _validate_final_decision
IsConflicted(trend_1h, trend_4h) ==
    \/ trend_1h = "bullish" /\ trend_4h \in {"bearish", "strong_bearish"}
    \/ trend_1h = "bearish" /\ trend_4h \in {"bullish", "strong_bullish"}

\* _apply_kelly_formula: the position_sizing it returns and the direction it
\* leaves in decision_result; sl_percent and tp_percent are the risk
\* parameters of the decision
ApplyKellyFormula(decision, use_kelly, sl_percent, tp_percent, available_balance, current_price, daily_pnl) ==
    IF ~use_kelly
    THEN [direction |-> decision.direction, method |-> "fixed"]
    ELSE LET kelly_result ==
                 CalculateKellyPosition(TRUE, decision.conviction, sl_percent,
                                        tp_percent, available_balance, current_price,
                                        daily_pnl, decision.recommended_leverage)
         IN  IF kelly_result.raised
             THEN [direction |-> "NO_POSITION", method |-> "error"]
             ELSE IF kelly_result.success
             THEN [direction |-> decision.direction, method |-> "kelly"]
             ELSE [direction |-> "NO_POSITION", method |-> "none"]

\* _validate_final_decision: timeframe conflict, news impact, performance
\* pattern, final conviction check
ValidateFinalDecision(direction, conviction, chain_results, best_direction) ==
    LET d1 == IF IsConflicted(chain_results.trend_1h, chain_results.trend_4h)
              THEN "NO_POSITION" ELSE direction
        news == IF \/ d1 = "LONG" /\ chain_results.news_sentiment < 30
                   \/ d1 = "SHORT" /\ chain_results.news_sentiment > 70
                THEN 8 ELSE 10
        pattern == IF best_direction = "BALANCED" \/ d1 = "NO_POSITION" THEN 10
                   ELSE IF d1 = best_direction THEN 11 ELSE 9
        final == Clamp(0, 10000, conviction * news * pattern)
    IN  [direction |-> IF final < min_conviction * 100 THEN "NO_POSITION" ELSE d1,
         conviction |-> final]

\* DecisionChain.run: the "decision" of the dict it returns
Run(input, sizing) ==
    IF input.has_position
    THEN [direction |-> "NO_POSITION", conviction |-> 0, method |-> "absent"]
    ELSE LET decision == MakeDecision(input.response, input.chain_results)
             kelly == IF decision.direction # "NO_POSITION"
                      THEN ApplyKellyFormula(decision, sizing.use_kelly,
                                             sizing.sl_percent, sizing.tp_percent,
                                             sizing.available_balance,
                                             sizing.current_price, sizing.daily_pnl)
                      ELSE [direction |-> "NO_POSITION", method |-> "absent"]
             final == ValidateFinalDecision(kelly.direction, decision.conviction,
                                            input.chain_results, input.best_direction)
         IN  [direction |-> final.direction, conviction |-> final.conviction,
              method |-> kelly.method]

\* inputs of run: answers of the LLM around min_conviction, cached signals
\* with sentiments on both sides of 0.3 and 0.7, balances and day results
\* that sizing accepts, rejects and fails on
RunResponses ==
    {r \in OracleResponses :
        \/ r.kind = "not_json"
        \/ /\ r.kind = "object"
           /\ r.direction # "missing"
           /\ r.conviction \in {Num(54), Num(55), Num(80), Num(170)}
           /\ r.recommended_leverage = Num(3)}
RunSentiments == {20, 50, 80}
RunInputs ==
    [response : RunResponses,
     chain_results : [trend_1h : Trends1h, trend_4h : Trends4h,
                      news_sentiment : RunSentiments],
     best_direction : BestDirections, has_position : BOOLEAN]
RunSizings ==
    {s \in SizingInputs :
        /\ s.conviction = 65 /\ s.max_leverage = 0 /\ s.current_price = 100
        /\ s.sl_percent = 3 /\ s.tp_percent \in {3, 6}
        /\ s.available_balance \in {0, 150, 10000} /\ s.daily_pnl \in {-600, 0}}

\* run(current_price, available_balance, current_position, daily_pnl)
RunCall ==
    /\ ~oracle_out.called
    /\ oracle_out' = [called |-> TRUE, op |-> "run", result |-> Run(oracle_in, sizing_in)]
    /\ UNCHANGED <<oracle_in, llm, sizing_vars, retry_vars, tick_vars, thread_vars>>
    /\ UNCHANGED <<sched_vars, gate_vars, bot_pc, bot_is_running, trading_vars,
                   cache_vars>>

----------------------------------------------------------------------------
(* Claims about the decision that run returns *)

\* the sizing of the decision the LLM (or the fallback) made, computed from
\* the inputs of the call
RunSizing ==
    LET decision == MakeDecision(oracle_in.response, oracle_in.chain_results)
    IN  IF ~sizing_in.use_kelly
        THEN [success |-> TRUE]
        ELSE CalculateKellyPosition(TRUE, decision.conviction, sizing_in.sl_percent,
                                    sizing_in.tp_percent, sizing_in.available_balance,
                                    sizing_in.current_price, sizing_in.daily_pnl,
                                    decision.recommended_leverage)

\* C39: the decision run returns has direction LONG, SHORT or NO_POSITION;
\* a LONG or SHORT decision has a final conviction of at least
\* min_conviction, 1h and 4h trends that are not opposed, and a successful
\* position sizing; with a position already open, or a sizing that is
\* rejected or fails, the direction is NO_POSITION.
C39_ReturnedDecision ==
    oracle_out.called =>
        LET decision == oracle_out.result
            c == oracle_in.chain_results
            opposed ==
                \/ c.trend_1h = "bullish" /\ c.trend_4h \in {"bearish", "strong_bearish"}
                \/ c.trend_1h = "bearish" /\ c.trend_4h \in {"bullish", "strong_bullish"}
        IN  /\ decision.direction \in {"LONG", "SHORT", "NO_POSITION"}
            /\ decision.direction \in {"LONG", "SHORT"} =>
                   /\ decision.conviction >= min_conviction * 100
                   /\ ~opposed
                   /\ decision.method \in {"kelly", "fixed"}
                   /\ RunSizing.success
            /\ oracle_in.has_position => decision.direction = "NO_POSITION"
            /\ ~RunSizing.success => decision.direction = "NO_POSITION"

\* a LONG decision of the LLM against the best direction and bearish news,
\* still above the minimum conviction, sized by Kelly
C39_Witness ==
    /\ oracle_out.called
    /\ oracle_out.result.direction = "LONG"
    /\ oracle_out.result.method = "kelly"
    /\ oracle_out.result.conviction = 5760
    /\ oracle_in.best_direction = "SHORT"
    /\ oracle_in.chain_results.news_sentiment < 30

(* llm_factory.py: the cache of LLM instances                              *)
(*   temperature   in tenths (0.1 = 1)                                     *)

\* LLMFactory._max_cache_size
max_cache_size == 10

\* DEFAULT_SETTINGS["temperature"]
default_temperature == 1

\* bound of the model: cache hits that are followed
MaxHits == 2

\* keys of SUPPORTED_MODELS the callers use, in the order the model asks
\* for them, and a key that is not supported
LlmModels == <<"gpt-4o", "claude-3-5-sonnet", "gemini-1.5-pro">>
UnsupportedModels == {"unknown"}

\* **kwargs of create_llm: nothing, or a temperature
LlmTemperatures == 1..4
LlmKwargs == {<<>>} \cup {<<t>> : t \in LlmTemperatures}

\* settings = {**DEFAULT_SETTINGS, **kwargs}
MergeSettings(kwargs) == IF kwargs = <<>> THEN default_temperature ELSE kwargs[1]

\* _generate_cache_key(model_key, **settings): the digest of
\* "model_key|sorted settings", one key per model and settings
GenerateCacheKey(model_key, settings) == <<model_key, settings>>

\* bound of the model: the distinct configurations are first asked for in
\* one fixed order
KeyRank(key) ==
    (CHOOSE i \in DOMAIN LlmModels : LlmModels[i] = key[1]) * Cardinality(LlmTemperatures)
    - Cardinality(LlmTemperatures) + key[2]

CachedKeys(cache) == {cache[i].key : i \in DOMAIN cache}

\* _manage_cache_size: past the limit, next(iter(_llm_cache)) is deleted,
\* the entry that was inserted first
ManageCacheSize(cache) ==
    IF Len(cache) > max_cache_size THEN Tail(cache) ELSE cache

\* the keys of `order` other than `key`, in their order
Without(order, key) == SelectSeq(order, LAMBDA k : k # key)

\* nothing created yet
EmptyFactory ==
    [cache |-> <<>>, used |-> <<>>, created |-> 0, hits |-> 0,
     ret |-> [op |-> "none"]]

\* create_llm(model_key, **kwargs).  llm.cache is _llm_cache in the order of
\* its dict (insertion order); llm.used lists the cached keys by their last
\* use, least recent first (kept beside the cache to state the claims)
CreateLlm(model_key, kwargs) ==
    /\ UNCHANGED <<oracle_in, oracle_out, sizing_vars, retry_vars, tick_vars, thread_vars>>
    /\ UNCHANGED <<sched_vars, gate_vars, bot_pc, bot_is_running, trading_vars,
                   cache_vars>>
    /\ IF model_key \in UnsupportedModels
       THEN llm' = [llm EXCEPT !.ret = [op |-> "create_llm", raised |-> "ValueError"]]
       ELSE LET cache_key == GenerateCacheKey(model_key, MergeSettings(kwargs))
            IN  IF cache_key \in CachedKeys(llm.cache)
                THEN /\ llm.hits < MaxHits
                     /\ llm' = [llm EXCEPT
                                  !.used = Append(Without(@, cache_key), cache_key),
                                  !.hits = @ + 1,
                                  !.ret = [op |-> "create_llm", raised |-> "none",
                                           key |-> cache_key, hit |-> TRUE,
                                           instance |->
                                               llm.cache[CHOOSE i \in DOMAIN llm.cache :
                                                   llm.cache[i].key = cache_key].instance]]
                ELSE LET stored == Append(llm.cache,
                                          [key |-> cache_key,
                                           instance |-> llm.created + 1])
                         kept == ManageCacheSize(stored)
                     IN  /\ KeyRank(cache_key) = llm.created + 1
                         /\ llm' = [llm EXCEPT
                                      !.cache = kept,
                                      !.used = SelectSeq(Append(@, cache_key),
                                                   LAMBDA k : k \in CachedKeys(kept)),
                                      !.created = @ + 1,
                                      !.ret = [op |-> "create_llm", raised |-> "none",
                                               key |-> cache_key, hit |-> FALSE,
                                               instance |-> llm.created + 1]]

----------------------------------------------------------------------------
(* Claims about the cache of LLM instances *)

\* the keys a create_llm call removed from the cache
Evicted == CachedKeys(llm.cache) \ CachedKeys(llm'.cache)

\* C40: the cache never holds more than max_cache_size (10) instances; a
\* call for a cached model and settings returns the cached instance and
\* creates none; a call that exceeds the limit evicts the entry that was
\* used least recently, a cache hit counting as a use.
C40_LruCache ==
    /\ [](Len(llm.cache) <= max_cache_size)
    /\ [][(llm'.ret # llm.ret /\ llm'.ret.raised = "none") =>
             /\ llm'.ret.hit <=> llm'.ret.key \in CachedKeys(llm.cache)
             /\ llm'.ret.hit =>
                    /\ \E i \in DOMAIN llm.cache :
                           /\ llm.cache[i].key = llm'.ret.key
                           /\ llm.cache[i].instance = llm'.ret.instance
                    /\ llm'.cache = llm.cache
                    /\ llm'.created = llm.created]_vars
    /\ [][Evicted # {} => Evicted = {Head(llm.used)}]_vars

\* the entry inserted first has just been returned by a cache hit, so it
\* is the most recently used one, while the cache is full
C40_Counterexample ==
    /\ Len(llm.cache) = max_cache_size
    /\ llm.ret.op = "create_llm"
    /\ llm.ret.raised = "none"
    /\ llm.ret.hit
    /\ llm.ret.key = llm.cache[1].key
    /\ llm.used[max_cache_size] = llm.cache[1].key

----------------------------------------------------------------------------
(* Initial states and specifications *)

InitSched ==
    /\ is_running = FALSE
    /\ initialization_complete = FALSE
    /\ initialization_results = [c \in chain_functions |-> "none"]
    /\ job_stats = [c \in chain_functions |-> NoStats]
    /\ aps_state = "stopped"
    /\ aps_jobs = {}
    /\ executions = EmptyBag
    /\ epoch = 0
    /\ submitted = 0
    /\ submit_result = "none"
    /\ start_pc = "idle"
    /\ init_idx = 1
    /\ init_attempt = 0
    /\ failed_chains = {}
    /\ init_slept = [c \in chain_functions |-> <<>>]
    /\ init_error = [c \in chain_functions |-> "none"]
    /\ gate_elapsed = 0
    /\ sched_ret = NoReturn
    /\ interval_fired = {}

InitBot ==
    /\ bot_pc = "created"
    /\ bot_is_running = FALSE
    /\ trades = <<>>
    /\ position_status = NoStatus
    /\ iteration = NoIteration

\* TestExecutor.__init__ / RealExecutor.__init__, chosen by Config.TRADING_MODE
InitExecutor ==
    /\ trading_mode \in {"TEST", "REAL"}
    /\ clock = ClockStart
    /\ current_market_price = Unset
    /\ current_position = NoPosition
    /\ current_balance = ToBalance(INITIAL_TEST_BALANCE)
    /\ order_id_counter = 1
    /\ closing_in_progress = FALSE
    /\ last_trigger_check = 0
    /\ order_in_progress = FALSE
    /\ last_order_time = 0
    /\ ticker_last \in (IF trading_mode = "REAL" THEN Prices ELSE {Unset})
    /\ exchange_position = NoPosition
    /\ exchange_open_orders = {}
    /\ exchange_orders = [entry |-> 0, close |-> 0]
    /\ opened = 0
    /\ open_ret = NoOpen
    /\ close_pc = [t \in Callers |-> "idle"]
    /\ close_local = [t \in Callers |-> NoLocal]
    /\ close_ret = [t \in Callers |-> NoResult]
    /\ trig_ret = NoCheck

\* the executor after one open_position(direction, ...) at `entry`, the
\* market having moved to `price` since
OpenedExecutor ==
    \E direction \in Sides, entry \in Prices, price \in Prices :
        LET position == [side |-> direction,
                         amount |-> CalculateOrderAmount(MIN_INVESTMENT_AMOUNT, entry),
                         entry_price |-> entry]
        IN  /\ trading_mode \in {"TEST", "REAL"}
            /\ clock = ClockStart
            /\ current_market_price = (IF trading_mode = "TEST" THEN price ELSE Unset)
            /\ current_position = (IF trading_mode = "TEST" THEN position ELSE NoPosition)
            /\ current_balance = ToBalance(INITIAL_TEST_BALANCE)
            /\ order_id_counter = (IF trading_mode = "TEST" THEN 4 ELSE 1)
            /\ closing_in_progress = FALSE
            /\ last_trigger_check = 0
            /\ order_in_progress = FALSE
            /\ last_order_time = (IF trading_mode = "REAL" THEN ClockStart ELSE 0)
            /\ ticker_last = (IF trading_mode = "REAL" THEN price ELSE Unset)
            /\ exchange_position = (IF trading_mode = "REAL" THEN position ELSE NoPosition)
            /\ exchange_open_orders = (IF trading_mode = "REAL" THEN {"sl", "tp"} ELSE {})
            /\ exchange_orders = [entry |-> IF trading_mode = "REAL" THEN 1 ELSE 0,
                                  close |-> 0]
            /\ opened = 1
            /\ open_ret = OpenReturn("none")
            /\ close_pc = [t \in Callers |-> "idle"]
            /\ close_local = [t \in Callers |-> NoLocal]
            /\ close_ret = [t \in Callers |-> NoResult]
            /\ trig_ret = NoCheck

\* no sizing call in progress
IdleSizing ==
    /\ sizing_in = [use_kelly |-> TRUE, conviction |-> 65, sl_percent |-> 3,
                    tp_percent |-> 6, available_balance |-> 10000,
                    current_price |-> 100, daily_pnl |-> 0, max_leverage |-> 0]
    /\ sizing_out = NoSizing

\* no wrapped call in progress
IdleRetry ==
    /\ retry_in = "retry_on_llm_error"
    /\ retry_st = NoRetry

\* no decision in progress
IdleOracle ==
    /\ oracle_in = [response |-> [kind |-> "not_json", direction |-> "missing",
                                  conviction |-> Missing,
                                  recommended_leverage |-> Missing],
                    chain_results |-> [trend_1h |-> "sideways",
                                       trend_4h |-> "neutral",
                                       news_sentiment |-> 50]]
    /\ oracle_out = NoDecision
    /\ llm = EmptyFactory

\* no thread inside a cache operation or _run_chain_safe; the timing keys
\* of job_stats as _init_job_stats leaves them
IdleThreads ==
    /\ db_conns = [t \in DbCallers |-> "none"]
    /\ stats_lock = Free
    /\ stats_pc = [t \in StatsThreads |-> NoFrame]
    /\ job_times = [c \in chain_functions |-> NoTimes]

InitCalls == IdleSizing /\ IdleRetry /\ IdleOracle /\ IdleThreads

Init == InitSched /\ InitBot /\ InitExecutor /\ InitCache /\ InitCalls

\* the scheduler and the bot after a start() whose four initial runs all
\* succeeded at the first attempt (reached by SpecStart): the main loop runs
Started ==
    /\ is_running = TRUE
    /\ initialization_complete = TRUE
    /\ initialization_results = [c \in chain_functions |-> "success"]
    /\ job_stats = [c \in chain_functions |->
                        [attempts |-> 1, successes |-> 1, failures |-> 0]]
    /\ aps_state = "running"
    /\ aps_jobs = {PeriodicJob(c) : c \in chain_functions}
    /\ executions = EmptyBag
    /\ epoch = 0
    /\ submitted = 0
    /\ submit_result = "none"
    /\ start_pc = "returned"
    /\ init_idx = Len(chain_sequence) + 1
    /\ init_attempt = 0
    /\ failed_chains = {}
    /\ init_slept = [c \in chain_functions |-> <<>>]
    /\ init_error = [c \in chain_functions |-> "none"]
    /\ gate_elapsed = 0
    /\ sched_ret = NoReturn
    /\ interval_fired = {}
    /\ bot_pc = "main_loop"
    /\ bot_is_running = TRUE

\* the main loop before its first iteration
InitLoop ==
    /\ trades = <<>>
    /\ position_status = NoStatus
    /\ iteration = NoIteration

\* the main loop after the iteration that entered the position of
\* OpenedExecutor and saved its trade record
OpenedLoop ==
    \E pcts \in DecisionPcts :
        LET position == IF trading_mode = "TEST" THEN current_position
                        ELSE exchange_position
            p == CalculateSlTpPrices(position.side, position.entry_price,
                                     pcts[1], pcts[2])
        IN  /\ trades = <<TradeRecord(position.side, p.sl_price, p.tp_price)>>
            /\ position_status = [checked |-> TRUE, is_open |-> FALSE]
            /\ iteration = [parity |-> 1, handler |-> "decided", update_failed |-> FALSE]

InitStarted ==
    Started /\ InitLoop /\ InitExecutor /\ trading_mode = "TEST" /\ InitCache /\ InitCalls

InitExec == Started /\ InitLoop /\ InitExecutor /\ InitCache /\ InitCalls

InitClose == Started /\ OpenedExecutor /\ OpenedLoop /\ InitCache /\ InitCalls

\* the decision chain about to size a position
InitSizing ==
    /\ Started /\ InitLoop /\ InitExecutor /\ trading_mode = "TEST" /\ InitCache
    /\ sizing_in \in SizingInputs
    /\ sizing_out = NoSizing
    /\ IdleRetry /\ IdleOracle /\ IdleThreads

\* a wrapped operation is about to be called through one of the wrappers
InitRetry ==
    /\ Started /\ InitLoop /\ InitExecutor /\ trading_mode = "TEST" /\ InitCache
    /\ IdleSizing /\ IdleOracle /\ IdleThreads
    /\ retry_in \in PolicyNames
    /\ retry_st = [NoRetry EXCEPT !.pc = "call"]

\* the decision chain about to ask the LLM for a decision
InitDecision ==
    /\ Started /\ InitLoop /\ InitExecutor /\ trading_mode = "TEST" /\ InitCache
    /\ IdleSizing /\ IdleRetry /\ IdleThreads
    /\ oracle_in \in [response : OracleResponses, chain_results : ChainResults]
    /\ oracle_out = NoDecision
    /\ llm = EmptyFactory

\* a REAL-mode bot in its main loop, the scheduler running
InitNotify == InitExec /\ trading_mode = "REAL"

\* startup: TradingBot.run up to and out of the main loop
NextStart ==
    \/ Start
    \/ \E o \in ChainOutcomes, d \in ChainDurations : InitializeAttempt(o, d)
    \/ InitializeHangs
    \/ BlockedTime
    \/ StartFinish
    \/ StartAgain
    \/ RunAfterStart
    \/ SignalHandler
    \/ MainLoopExit
    \/ StopBegin
    \/ StopEnd

\* the running scheduler: jobs firing, chain runs, manual triggers
NextJobs ==
    \/ \E c \in chain_functions : FirePeriodic(c)
    \/ \E j \in DateJobs : FireDate(j)
    \/ \E e \in DOMAIN executions : RunChainBegin(e)
    \/ \E e \in DOMAIN executions, o \in ChainOutcomes : RunChainEnd(e, o)
    \/ \E n \in TriggerNames : TriggerChain(n)
    \/ \E t \in TickTimes : Tick(t)

\* close_position, step by step, for every caller
NextClose ==
    \/ \E t \in Callers : CloseCall(t)
    \/ \E t \in Callers : TestCheckPosition(t)
    \/ \E t \in Callers : TestCheckFlag(t)
    \/ \E t \in Callers : TestSetFlag(t)
    \/ \E t \in Callers : TestReadPosition(t)
    \/ \E t \in Callers : TestLoadBalance(t)
    \/ \E t \in Callers : TestStoreBalance(t)
    \/ \E t \in Callers : TestClearPosition(t)
    \/ \E t \in Callers : TestFinally(t)
    \/ \E t \in Callers : RealCheckFlag(t)
    \/ \E t \in Callers : RealSetFlag(t)
    \/ \E t \in Callers, ok \in BOOLEAN : RealCheckStatus(t, ok)
    \/ \E t \in Callers, left \in SUBSET exchange_open_orders : RealCancelOrders(t, left)
    \/ \E t \in Callers, ok \in BOOLEAN : RealCloseOrder(t, ok)
    \/ \E t \in Callers, ok \in BOOLEAN : RealFetchTicker(t, ok)
    \/ \E t \in Callers : RealFinally(t)

\* the executor in use: prices, opens, closes by concurrent callers
NextExec ==
    \/ NextClose
    \/ \E t \in Callers : CloseReturn(t)
    \/ \E p \in Prices : UpdateMarketPrice(p)
    \/ \E p \in Prices : TickerMove(p)
    \/ \E d \in Sides, pcts \in DecisionPcts, p \in Prices : OpenPositionTest(d, pcts, p)
    \/ \E d \in Sides, pcts \in DecisionPcts, p \in Prices, f \in OpenFailures :
          OpenPositionReal(d, pcts, p, f)

\* the caller of the executor's operations when they are made one at a time
SoleCaller == CHOOSE t \in Callers : \A u \in Callers : t <= u

\* the executor used by one caller: opens and closes one after the other
NextSeq ==
    \/ \E p \in Prices : UpdateMarketPrice(p)
    \/ \E p \in Prices : TickerMove(p)
    \/ \E d \in Sides, pcts \in DecisionPcts, p \in Prices : OpenPositionTest(d, pcts, p)
    \/ \E d \in Sides, pcts \in DecisionPcts, p \in Prices, f \in OpenFailures :
          OpenPositionReal(d, pcts, p, f)
    \/ CloseCall(SoleCaller)
    \/ TestCheckPosition(SoleCaller)
    \/ TestCheckFlag(SoleCaller)
    \/ TestSetFlag(SoleCaller)
    \/ TestReadPosition(SoleCaller)
    \/ TestLoadBalance(SoleCaller)
    \/ TestStoreBalance(SoleCaller)
    \/ TestClearPosition(SoleCaller)
    \/ TestFinally(SoleCaller)
    \/ RealCheckFlag(SoleCaller)
    \/ RealSetFlag(SoleCaller)
    \/ \E ok \in BOOLEAN : RealCheckStatus(SoleCaller, ok)
    \/ \E left \in SUBSET exchange_open_orders : RealCancelOrders(SoleCaller, left)
    \/ \E ok \in BOOLEAN : RealCloseOrder(SoleCaller, ok)
    \/ \E ok \in BOOLEAN : RealFetchTicker(SoleCaller, ok)
    \/ RealFinally(SoleCaller)
    \/ CloseReturn(SoleCaller)

\* the simulation's monitoring: prices, opens, trigger checks over time
NextTrig ==
    \/ \E p \in Prices : UpdateMarketPrice(p)
    \/ ClockTick
    \/ \E d \in Sides, pcts \in DecisionPcts, p \in Prices : OpenPositionTest(d, pcts, p)
    \/ \E p \in Prices, pcts \in DecisionPcts : CheckSlTpTriggers(p, pcts)

\* the cache in use
NextCache ==
    \/ \E n \in SavingChains, ttl \in TtlInputs : SaveChainResult(n, ttl)
    \/ SaveNewsSummary
    \/ \E tf \in Timeframes : SaveTrendSummary(tf)
    \/ SavePerformanceSummary
    \/ \E n \in ChainNames, a \in MaxAgeInputs,
          row \in tables["chain_results"] \cup {NoRow} :
          GetLatestChainResult(n, a, row)
    \/ \E row \in tables["news_summary"] \cup {NoRow} : GetLatestNewsSummary(row)
    \/ \E tf \in Timeframes, row \in tables["trend_summary"] \cup {NoRow} :
          GetLatestTrendSummary(tf, row)
    \/ \E row \in tables["performance_summary"] \cup {NoRow} :
          GetLatestPerformanceSummary(row)
    \/ CleanupExpiredCache
    \/ DbClockTick

\* chain runs and their statistics: periodic runs, runs under a name that
\* is no chain, the daily reset
NextRuns ==
    \/ \E c \in chain_functions : FirePeriodic(c)
    \/ \E e \in DOMAIN executions : RunChainBegin(e)
    \/ \E e \in DOMAIN executions, o \in ChainOutcomes : RunChainEnd(e, o)
    \/ \E n \in UnknownNames : RunChainSafeDirect(n)
    \/ ResetJobStats
    \/ \E t \in TickTimes : Tick(t)

\* the bot stopping while the scheduler has jobs firing and runs in flight
NextStop ==
    \/ \E c \in chain_functions : FirePeriodic(c)
    \/ \E j \in DateJobs : FireDate(j)
    \/ \E e \in DOMAIN executions : RunChainBegin(e)
    \/ \E e \in DOMAIN executions, o \in ChainOutcomes : RunChainEnd(e, o)
    \/ \E t \in TickTimes : Tick(t)
    \/ SignalHandler
    \/ MainLoopExit
    \/ StopBegin
    \/ StopEnd

\* the exchange closes the position on its own: a protective order fills or
\* the position is liquidated
ExternalClose ==
    /\ trading_mode = "REAL"
    /\ AllIdle
    /\ exchange_position # NoPosition
    /\ exchange_position' = NoPosition
    /\ UNCHANGED <<trading_frame, clock, test_vars, order_in_progress,
                   last_order_time, ticker_last, exchange_open_orders,
                   exchange_orders, call_vars, trig_ret>>
    /\ UNCHANGED <<sched_vars, bot_vars, gate_vars, cache_vars>>

\* _fetch_current_price_safe: the simulation is fed any price, the live
\* fetcher reads the market the exchange trades at
FetchedPrices == IF trading_mode = "TEST" THEN Prices ELSE {ticker_last}

\* the main loop: iterations that take no entry decision (debounced, or the
\* decision chain answers NO_POSITION or nothing usable), iterations that
\* take one, and the exchange closing the position in between
NextLoop ==
    \/ \E price \in FetchedPrices, status_ok \in BOOLEAN, recent \in BOOLEAN,
          decision \in DecisionOutcomes \ Sides, update_ok \in BOOLEAN :
          MainLoopIteration(price, status_ok, recent, decision, <<0, 0>>, "none",
                            TRUE, update_ok)
    \/ \E price \in FetchedPrices, status_ok \in BOOLEAN, decision \in Sides,
          pcts \in LoopPcts, fail_at \in OpenFailures, save_ok \in BOOLEAN,
          update_ok \in BOOLEAN :
          MainLoopIteration(price, status_ok, FALSE, decision, pcts, fail_at,
                            save_ok, update_ok)
    \/ ExternalClose

NextSizing == SizePosition

NextRetry ==
    \/ \E outcome \in ErrorClasses \cup {"ok"} : RetryCall(outcome)
    \/ \E draw \in RandomDraws : RetrySleep(draw)

NextDecision == MakeDecisionCall

\* the main loop of a REAL-mode bot beside the running scheduler: orders
\* that fill and are recorded, the exchange closing the position, closures
\* recorded at the next reconciliation (or not, when the record write
\* fails), the forced performance runs coming due, being submitted and run
NextNotify ==
    \/ \E price \in FetchedPrices, status_ok \in BOOLEAN, recent \in BOOLEAN,
          update_ok \in BOOLEAN :
          MainLoopIteration(price, status_ok, recent, "NO_POSITION", <<0, 0>>,
                            "none", TRUE, update_ok)
    \/ \E price \in FetchedPrices, pcts \in LoopPcts, update_ok \in BOOLEAN :
          MainLoopIteration(price, TRUE, FALSE, "long", pcts, "none", TRUE,
                            update_ok)
    \/ ExternalClose
    \/ \E j \in DateJobs : FireDate(j)
    \/ \E e \in DOMAIN executions : RunChainBegin(e)
    \/ \E e \in DOMAIN executions : RunChainEnd(e, "success")
    \/ \E t \in TickTimes : Tick(t)

\* chain runs and statistics resets on concurrent threads
NextStats ==
    \/ \E t \in StatsWorkers, c \in StatsChains : RunEnter(t, c)
    \/ ResetEnter
    \/ \E t \in StatsThreads : AcquireLock(t)
    \/ \E t \in StatsWorkers, now \in Instants : LockedBegin(t, now)
    \/ \E t \in StatsWorkers, outcome \in {"success", "failed"} : ChainBody(t, outcome)
    \/ \E t \in StatsWorkers, duration \in Durations : LockedEnd(t, duration)
    \/ LockedReset
    \/ ResetReturn

\* one worker, the reset and the status log around the lock
NextLock ==
    \/ \E c \in StatsChains : RunEnter("worker_1", c)
    \/ ResetEnter
    \/ StatusEnter
    \/ \E t \in StatsThreads : AcquireLock(t)
    \/ \E now \in Instants : LockedBegin("worker_1", now)
    \/ \E outcome \in {"success", "failed"} : ChainBody("worker_1", outcome)
    \/ \E duration \in Durations : LockedEnd("worker_1", duration)
    \/ LockedReset
    \/ ResetReturn
    \/ StatusLog
    \/ StatusReturn

SpecLock == InitStarted /\ [][NextLock]_vars

\* the callers of the cache entering and leaving get_connection
NextConn ==
    \/ \E t \in DbCallers : Connect(t)
    \/ \E t \in DbCallers : BodyRaises(t)
    \/ \E t \in DbCallers : CloseConnection(t)

NextRetryChain ==
    \/ \E c \in chain_functions, o \in {"success", "network"} : PeriodicRun(c, o)
    \/ \E j \in DateJobs, o \in {"success", "network"} : RetryRun(j, o)
    \/ \E t \in TickTimes : Tick(t)

SpecRetryChain == InitStarted /\ [][NextRetryChain]_vars

\* simulation mode, one position open and recorded
InitMonitor ==
    /\ Started /\ OpenedExecutor /\ OpenedLoop /\ InitCache /\ InitCalls
    /\ trading_mode = "TEST"

\* the monitoring loop while the price stays at or beyond a level
NextMonitor == \E price \in Prices : MonitorTick(price)

SpecMonitor == InitMonitor /\ [][NextMonitor]_vars /\ WF_vars(NextMonitor)

\* the decision chain about to run
InitRun ==
    /\ Started /\ InitLoop /\ InitExecutor /\ trading_mode = "TEST" /\ InitCache
    /\ IdleRetry /\ IdleThreads
    /\ oracle_in \in RunInputs
    /\ oracle_out = NoDecision
    /\ llm = EmptyFactory
    /\ sizing_in \in RunSizings
    /\ sizing_out = NoSizing

NextRun == RunCall

SpecRun == InitRun /\ [][NextRun]_vars

\* create_llm called with supported and unsupported models
NextFactory ==
    \E m \in {LlmModels[i] : i \in DOMAIN LlmModels} \cup UnsupportedModels,
       k \in LlmKwargs : CreateLlm(m, k)

SpecFactory == InitStarted /\ [][NextFactory]_vars

Next ==
    \/ NextStart \/ NextJobs \/ NextRuns \/ NextStop \/ NextSeq \/ NextExec
    \/ NextTrig \/ NextCache \/ NextLoop \/ NextSizing \/ NextRetry
    \/ NextDecision \/ NextConn \/ NextStats \/ NextRetryChain
    \/ NextLock \/ NextMonitor \/ NextRun \/ NextFactory

Spec == Init /\ [][Next]_vars

SpecStart == Init /\ [][NextStart]_vars

SpecJobs == InitStarted /\ [][NextJobs]_vars

SpecRuns == InitStarted /\ [][NextRuns]_vars

SpecStop == InitStarted /\ [][NextStop]_vars

SpecExec == InitExec /\ [][NextExec]_vars

SpecSeq == InitExec /\ [][NextSeq]_vars

SpecLoop == InitExec /\ [][NextLoop]_vars

SpecSizing == InitSizing /\ [][NextSizing]_vars

SpecRetry == InitRetry /\ [][NextRetry]_vars

SpecDecision == InitDecision /\ [][NextDecision]_vars

SpecConn == InitStarted /\ [][NextConn]_vars

SpecStats == InitStarted /\ [][NextStats]_vars

\* the scheduler thread wakes at the next run date and submits the job
\* that is due; a pool thread starts every submitted run
SpecNotify ==
    /\ InitNotify /\ [][NextNotify]_vars
    /\ WF_vars(\E t \in TickTimes : Tick(t))
    /\ WF_vars(\E j \in DateJobs : FireDate(j))
    /\ WF_vars(\E e \in DOMAIN executions : RunChainBegin(e))

SpecClose == InitClose /\ [][NextClose]_vars

SpecTrig == InitStarted /\ [][NextTrig]_vars

SpecCache == InitStarted /\ [][NextCache]_vars

====
